---- MODULE Spec2Model ----
(***************************************************************************)
(* Model of the skills core of Clawpilot (src/src/skills/mod.rs):          *)
(*   - the environment scope guard built by                                *)
(*     apply_env_overrides_for_run_with_entries,                           *)
(*   - the overlay resolver is_skill_enabled / load_skills_for_run,        *)
(*   - the gating evaluator evaluate_skill_eligibility.                    *)
(* Environment values are valid Unicode strings: std::env::var's           *)
(* NotUnicode error is outside this model.                                 *)
(***************************************************************************)
EXTENDS Integers, Sequences, FiniteSets, TLC

\* ------------------------------------------------------------------ bounds
\* Longest skill list handed to the guard or to load_skills_for_run.
MaxSkills == 2
\* Longest required-environment-variable list of a skill.
MaxReq == 2
\* Longest list of a gating requires block (bins, anyBins, env, config).
MaxRequires == 2
\* Most lines between the first line and the tail of a SKILL.md document.
MaxBlock == 3
\* Most entries of a skills root.
MaxEntries == 2
\* The last day of the clock and the most synchronization passes of a run.
MaxClock == 8
MaxPasses == 2
MaxRemovals == 2
\* mod.rs:17  OPEN_SKILLS_SYNC_INTERVAL_SECS, in days.
OPEN_SKILLS_SYNC_INTERVAL_DAYS == 7

\* ----------------------------------------------------------------- domains
\* Option::None
None == "None"
\* A variable that is not in the process environment.
Absent == "Absent"
\* Marks a name the guard has not captured.
NotCaptured == "NotCaptured"

\* Environment variable names.
Vars == {"A", "B"}
\* Skill keys (and display names).
Keys == {"s1", "s2"}
\* The value a variable holds before any guard runs.
OldValue == "old"
\* The value the overlay entry of key k gives to the variables of its env map.
EntryEnvValue(k) == IF k = "s1" THEN "e1" ELSE "e2"
\* The API key the overlay entry of key k carries.
EntryApiKey(k) == IF k = "s1" THEN "k1" ELSE "k2"

\* The sequences over S of length at most n.
SeqsUpTo(S, n) == UNION {[1..m -> S] : m \in 0..n}

\* struct Skill, the fields the overlay resolver and the guard read.
Skill(name, key, primary, req) ==
  [name |-> name, skill_key |-> key, primary_env |-> primary, requires_env |-> req]

\* struct SkillEntryConfig of key k: enabled is None, "true" or "false", and
\* envNames the names of its env map.
Entry(k, enabled, hasKey, envNames) ==
  [present |-> TRUE,
   enabled |-> enabled,
   api_key |-> IF hasKey THEN EntryApiKey(k) ELSE None,
   env |-> [v \in Vars |-> IF v \in envNames THEN EntryEnvValue(k) ELSE None]]

\* The keys of an entry's env map.
EnvKeys(entry) == {v \in Vars : entry.env[v] # None}

\* The overlay entries key k may have, its enabled flag drawn from flags.
EntriesOf(k, flags) ==
  {Entry(k, en, hk, names) : en \in flags, hk \in BOOLEAN, names \in SUBSET Vars}

\* What entries.get(key) finds for a key the map does not hold.
NoEntry ==
  [present |-> FALSE, enabled |-> None, api_key |-> None, env |-> [v \in Vars |-> None]]

\* The overlay maps (HashMap<String, SkillEntryConfig>).
EntryMaps(flags) ==
  {[k \in Keys |-> IF k = "s1" THEN e1 ELSE e2] :
     e1 \in {NoEntry} \cup EntriesOf("s1", flags),
     e2 \in {NoEntry} \cup EntriesOf("s2", flags)}

\* The process environments before a guard runs.
Environments == [Vars -> {Absent, OldValue}]

\* The scopes that may construct a guard.
Scopes == {"run1", "run2"}

VARIABLES
  env,      \* the process environment: Vars -> value or Absent
  env0,     \* the environment when the model starts
  skills,   \* the skill list
  entries,  \* config.skills.entries
  guard,    \* per scope: the position in the guard's construction and the guard
  run,      \* load_skills_for_run: its position and the list it returned
  hostOs,   \* the target_os the program was built for
  files,    \* the regular files of the file system a binary lookup can meet
  pathVar,  \* the PATH variable of the process: Option of its directories
  configFiles,  \* the config.toml files: path -> content
  elig,     \* evaluate_skill_eligibility: its arguments and what it returned
  md,       \* parse_skill_md_content: its argument and what it returned
  disc,     \* the skills roots on disk and what discovery returned
  sync,     \* the open-skills synchronizer: its world and its passes
  rm,       \* the skills root of handle_command and what the command returned
  ov,       \* overlapping guard scopes: the variable each is working on
  scan,     \* scan_skills: the tree under its root and what it returned
  orch      \* the orchestrator: its configuration, queue and commands run

\* The host as the gating evaluator sees it.
eligWorld == <<hostOs, files, pathVar, configFiles, elig>>

\* The manifest parser, the discovery, the synchronizer and the commands.
\* The overlapping scopes, the strict scan and the orchestrator.
lateWorld == <<ov, scan, orch>>

loaderWorld == <<md, disc, sync, rm, lateWorld>>

vars == <<env, env0, skills, entries, guard, run, eligWorld, loaderWorld>>

\* What the guard's steps leave alone besides the environment.
guardFrame == <<env0, skills, entries, run, eligWorld, loaderWorld>>

\* ------------------------------------------------- SkillEnvGuard (from spec)
\* SkillEnvGuard::new(): an empty capture map.
SkillEnvGuard_new == [v \in Vars |-> NotCaptured]

\* guard.capture(key): records the variable's current state, once per name.
capture(captured, key, e) ==
  IF captured[key] # NotCaptured THEN captured
  ELSE [captured EXCEPT ![key] = e[key]]

\* Drop for SkillEnvGuard: every captured variable gets its captured state back.
drop(captured, e) ==
  [v \in Vars |-> IF captured[v] # NotCaptured THEN captured[v] ELSE e[v]]

\* ------------------------------- apply_env_overrides_for_run_with_entries
\* mod.rs:212  std::env::var(key).is_err()
MutEnvVarUnsetAlways(e, key) == TRUE

env_var_unset(e, key) == e[key] = Absent

\* mod.rs:218-219  the API key goes to the primary variable only when both are
\* given, the variable is unset and the env map does not name it.
MutShouldInjectApiKeyNoUnsetTest(e, skill, entry) ==
  /\ skill.primary_env # None
  /\ entry.api_key # None
  /\ skill.primary_env \notin EnvKeys(entry)

should_inject_api_key(e, skill, entry) ==
  /\ skill.primary_env # None
  /\ entry.api_key # None
  /\ env_var_unset(e, skill.primary_env)
  /\ skill.primary_env \notin EnvKeys(entry)

\* mod.rs:213-214 and 220-221  guard.capture(key); std::env::set_var(key, value)
MutSetWithoutCapture(e, captured, key, value) ==
  [env |-> [e EXCEPT ![key] = value], captured |-> captured]

MutSetThenCapture(e, captured, key, value) ==
  [env |-> [e EXCEPT ![key] = value],
   captured |-> capture(captured, key, [e EXCEPT ![key] = value])]

capture_and_set(e, captured, key, value) ==
  [env |-> [e EXCEPT ![key] = value], captured |-> capture(captured, key, e)]

\* Option<T>: Some(x), and None of the same shape.
Some(x) == [some |-> TRUE, val |-> x]
NoDirs == [some |-> FALSE, val |-> <<>>]
NoMap == [some |-> FALSE, val |-> [v \in Vars |-> None]]

\* struct SkillRequires
Requires(bins, any_bins, envs, config) ==
  [bins |-> bins, any_bins |-> any_bins, env |-> envs, config |-> config]

\* struct SkillOpenClawMetadata, and the None of Option<&SkillOpenClawMetadata>
Gating(always, os, requires) ==
  [present |-> TRUE, always |-> always, os |-> os, requires |-> requires]

NoGating ==
  [present |-> FALSE, always |-> FALSE, os |-> None,
   requires |-> Requires(<<>>, <<>>, <<>>, <<>>)]

\* The workspace directory, as path components, and the config.toml files the
\* evaluator can meet: the one beside the workspace and the one inside it.
WorkspaceDir == <<"home", "ws">>
ConfigBeside == <<"home", "config.toml">>
ConfigInside == <<"home", "ws", "config.toml">>
ConfigPaths == {ConfigBeside, ConfigInside}

\* A file's content: missing, not TOML, or a TOML document given by the key
\* paths it holds (a path's proper prefixes are its tables).
MissingFile == [kind |-> "missing", paths |-> {}]
InvalidToml == [kind |-> "invalid", paths |-> {}]
Toml(paths) == [kind |-> "toml", paths |-> paths]

\* evaluate_skill_eligibility has not been called.
NoCall ==
  [pc |-> "none", openclaw |-> NoGating, workspace_dir |-> WorkspaceDir,
   path_override |-> NoDirs, env_override |-> NoMap,
   eligible |-> FALSE, reasons |-> <<>>]

\* The evaluator's part of the state where it is not under study.
EligUnused ==
  /\ hostOs = "linux"
  /\ files = {}
  /\ pathVar = NoDirs
  /\ configFiles = [p \in ConfigPaths |-> MissingFile]
  /\ elig = NoCall

\* A part of the program that is not under study.
Unused == [pc |-> "unused"]
LateUnused == ov = Unused /\ scan = Unused /\ orch = Unused
LoaderUnused == md = Unused /\ disc = Unused /\ sync = Unused /\ rm = Unused /\ LateUnused

\* load_skills_for_run has not been called.
IdleRun == [pc |-> "idle", result |-> <<>>]

\* A scope that has not built a guard.
IdleGuard ==
  [pc |-> "idle", idx |-> 0, todo |-> {}, captured |-> SkillEnvGuard_new,
   captures |-> [v \in Vars |-> 0], exit |-> None]

\* mod.rs:204  let mut guard = SkillEnvGuard::new();
NewGuard(s) ==
  /\ guard[s].pc = "idle"
  /\ guard' = [guard EXCEPT ![s] = [IdleGuard EXCEPT !.pc = "loop", !.idx = 1]]
  /\ UNCHANGED <<env, guardFrame>>

\* mod.rs:206-209 and 226  the head of `for skill in skills`
LoopHead(s) ==
  /\ guard[s].pc = "loop"
  /\ \/ /\ guard[s].idx > Len(skills)
        /\ guard' = [guard EXCEPT ![s].pc = "scope"]
     \/ /\ guard[s].idx <= Len(skills)
        /\ ~entries[skills[guard[s].idx].skill_key].present
        /\ guard' = [guard EXCEPT ![s].idx = @ + 1]
     \/ /\ guard[s].idx <= Len(skills)
        /\ entries[skills[guard[s].idx].skill_key].present
        /\ guard' = [guard EXCEPT ![s].pc = "env",
                       ![s].todo = EnvKeys(entries[skills[guard[s].idx].skill_key])]
  /\ UNCHANGED <<env, guardFrame>>

\* mod.rs:211-216  one iteration of `for (key, value) in &entry.env`, the map's
\* iteration order being unspecified
EnvStep(s) ==
  /\ guard[s].pc = "env"
  /\ \E key \in guard[s].todo :
       LET entry == entries[skills[guard[s].idx].skill_key]
           r == capture_and_set(env, guard[s].captured, key, entry.env[key])
       IN  IF env_var_unset(env, key)
           THEN /\ env' = r.env
                /\ guard' = [guard EXCEPT ![s].captured = r.captured,
                               ![s].captures[key] = @ + 1,
                               ![s].todo = @ \ {key}]
           ELSE /\ env' = env
                /\ guard' = [guard EXCEPT ![s].todo = @ \ {key}]
  /\ UNCHANGED guardFrame

\* mod.rs:218-223  the API key, then the next skill
PrimaryStep(s) ==
  /\ guard[s].pc = "env"
  /\ guard[s].todo = {}
  /\ LET skill == skills[guard[s].idx]
         entry == entries[skill.skill_key]
         r == capture_and_set(env, guard[s].captured, skill.primary_env, entry.api_key)
     IN  IF should_inject_api_key(env, skill, entry)
         THEN /\ env' = r.env
              /\ guard' = [guard EXCEPT ![s].captured = r.captured,
                             ![s].captures[skill.primary_env] = @ + 1,
                             ![s].pc = "loop", ![s].idx = @ + 1]
         ELSE /\ env' = env
              /\ guard' = [guard EXCEPT ![s].pc = "loop", ![s].idx = @ + 1]
  /\ UNCHANGED guardFrame

\* The scope that holds the guard ends, by return or by error: the guard drops.
Dispose(s) ==
  /\ guard[s].pc = "scope"
  /\ \E how \in {"return", "error"} :
       guard' = [guard EXCEPT ![s].pc = "disposed", ![s].exit = how]
  /\ env' = drop(guard[s].captured, env)
  /\ UNCHANGED guardFrame

\* A panic inside the loop (std::env::set_var panics on a malformed name or
\* value) unwinds through the function: the local guard drops.
Unwind(s) ==
  /\ guard[s].pc \in {"loop", "env"}
  /\ guard' = [guard EXCEPT ![s].pc = "disposed", ![s].exit = "panic"]
  /\ env' = drop(guard[s].captured, env)
  /\ UNCHANGED guardFrame

\* The skills the guard is run over: skill_key and primary_env vary.
GuardSkills == {Skill(k, k, p, <<>>) : k \in Keys, p \in {None} \cup Vars}

\* The skill lists and the overlay maps the guard is run with: the guard does
\* not read an entry's enabled flag.
GuardSkillLists == SeqsUpTo(GuardSkills, MaxSkills)
GuardEntryMaps == EntryMaps({None})

InitGuard ==
  /\ env \in Environments
  /\ env0 = env
  /\ skills \in GuardSkillLists
  /\ entries \in GuardEntryMaps
  /\ guard = [s \in Scopes |-> IdleGuard]
  /\ run = IdleRun
  /\ EligUnused
  /\ LoaderUnused

\* One guard at a time: the design's assumption (spec section 5).
NextGuard ==
  \/ NewGuard("run1")
  \/ LoopHead("run1")
  \/ EnvStep("run1")
  \/ PrimaryStep("run1")
  \/ Dispose("run1")
  \/ Unwind("run1")

SpecGuard == InitGuard /\ [][NextGuard]_vars

\* --------------------------------------------------------- guard: claims
\* The overlay entry the guard finds for the i-th skill of the list.
EntryAt(i) == entries[skills[i].skill_key]

\* C1: once a guard is disposed (by return, by error, or by unwinding), with no
\* other mutation of the environment in between, the environment is the one
\* from before the guard was created.
C1_RestoredAfterDisposal ==
  \A s \in Scopes : guard[s].pc = "disposed" => env = env0

\* A guard that injected a variable was disposed on an error exit.
C1_Witness ==
  /\ guard["run1"].pc = "disposed"
  /\ guard["run1"].exit = "error"
  /\ \E v \in Vars : guard["run1"].captured[v] = Absent

ApiKeyCase(i) ==
  /\ EntryAt(i).present
  /\ EntryAt(i).api_key # None
  /\ skills[i].primary_env # None
  /\ env0[skills[i].primary_env] = Absent

\* No env map of the i-th skill's entry, and no other entry met earlier in the
\* list, supplies the i-th skill's primary variable.
FirstSupplier(i) ==
  /\ skills[i].primary_env \notin EnvKeys(EntryAt(i))
  /\ \A j \in 1..(i - 1) :
       (skills[j].skill_key # skills[i].skill_key /\ EntryAt(j).present) =>
         /\ skills[i].primary_env \notin EnvKeys(EntryAt(j))
         /\ ~(skills[j].primary_env = skills[i].primary_env /\ EntryAt(j).api_key # None)

\* C3 as stated: in the scope the primary variable holds the API key, also when
\* another entry or the same entry's env map names the variable.
C3_Original ==
  \A i \in 1..Len(skills) :
    ApiKeyCase(i) =>
      /\ guard["run1"].pc = "scope" => env[skills[i].primary_env] = EntryAt(i).api_key
      /\ guard["run1"].pc = "disposed" => env[skills[i].primary_env] = Absent

\* C3 amended: in the scope the primary variable holds the API key when the
\* entry's env map does not name it and no other entry met earlier in the list
\* supplies it; after disposal it is absent again in every case.
C3_ApiKeyInScope ==
  \A i \in 1..Len(skills) :
    ApiKeyCase(i) =>
      /\ (guard["run1"].pc = "scope" /\ FirstSupplier(i)) =>
           env[skills[i].primary_env] = EntryAt(i).api_key
      /\ guard["run1"].pc = "disposed" => env[skills[i].primary_env] = Absent

\* The second skill of the list is the first supplier of its primary variable,
\* the first skill has an entry of its own, and the guard is in its scope.
C3_Witness ==
  /\ guard["run1"].pc = "scope"
  /\ Len(skills) = 2
  /\ skills[1].skill_key # skills[2].skill_key
  /\ EntryAt(1).present
  /\ EntryAt(1).api_key # None
  /\ skills[1].primary_env # None
  /\ ApiKeyCase(2)
  /\ FirstSupplier(2)

\* C4: the guard captures each name at most once, and what it holds for a
\* captured name is the variable's state from before the guard first changed it.
C4_CapturedOnce ==
  \A s \in Scopes : \A v \in Vars :
    /\ guard[s].captures[v] <= 1
    /\ (guard[s].captures[v] = 1) = (guard[s].captured[v] # NotCaptured)
    /\ guard[s].captured[v] # NotCaptured => guard[s].captured[v] = env0[v]

\* Two skills with different entries, and a duplicated skill key, name one
\* variable; the guard captured it and is in its scope.
C4_Witness ==
  /\ guard["run1"].pc = "scope"
  /\ Len(skills) = 2
  /\ \E v \in Vars :
       /\ guard["run1"].captured[v] = Absent
       /\ v \in EnvKeys(EntryAt(1))
       /\ EntryAt(1).present /\ EntryAt(2).present
       /\ v \in EnvKeys(EntryAt(2)) \/ (skills[2].primary_env = v /\ EntryAt(2).api_key # None)

\* ------------------------------------------------------- overlay resolver
\* mod.rs:267  std::env::var(required_key).is_ok()
env_var_is_ok(e, key) == e[key] # Absent

\* mod.rs:265-274  skill_requirements_met
MutRequirementsAnyMet(skill, entry, e) ==
  \E i \in 1..Len(skill.requires_env) :
    \/ env_var_is_ok(e, skill.requires_env[i])
    \/ /\ entry.present
       /\ \/ skill.requires_env[i] \in EnvKeys(entry)
          \/ skill.primary_env = skill.requires_env[i] /\ entry.api_key # None

MutRequirementsApiKeyForAnyVariable(skill, entry, e) ==
  \A i \in 1..Len(skill.requires_env) :
    \/ env_var_is_ok(e, skill.requires_env[i])
    \/ /\ entry.present
       /\ \/ skill.requires_env[i] \in EnvKeys(entry)
          \/ entry.api_key # None

skill_requirements_met(skill, entry, e) ==
  \A i \in 1..Len(skill.requires_env) :
    \/ env_var_is_ok(e, skill.requires_env[i])
    \/ /\ entry.present
       /\ \/ skill.requires_env[i] \in EnvKeys(entry)
          \/ skill.primary_env = skill.requires_env[i] /\ entry.api_key # None

\* mod.rs:254-263  is_skill_enabled
MutEnabledLookupByName(skill, ents, e) ==
  LET entry == ents[skill.name]
      requires_ok == skill_requirements_met(skill, entry, e)
  IN  CASE entry.enabled = "false" -> FALSE
        [] entry.enabled = "true" -> requires_ok
        [] OTHER -> requires_ok

is_skill_enabled(skill, ents, e) ==
  LET entry == ents[skill.skill_key]
      requires_ok == skill_requirements_met(skill, entry, e)
  IN  CASE entry.enabled = "false" -> FALSE
        [] entry.enabled = "true" -> requires_ok
        [] OTHER -> requires_ok

\* mod.rs:190-198  load_skills_for_run: the skills load_skills returned, filtered
\* by is_skill_enabled under the entries of the configuration file
LoadSkillsForRun ==
  /\ run.pc = "idle"
  /\ run' = [pc |-> "done",
             result |-> SelectSeq(skills, LAMBDA sk : is_skill_enabled(sk, entries, env))]
  /\ UNCHANGED <<env, env0, skills, entries, guard, eligWorld, loaderWorld>>

\* Every skill: display name, key, primary variable and required variables vary.
SkillUniverse ==
  {Skill(n, k, p, r) : n \in Keys, k \in Keys, p \in {None} \cup Vars,
                       r \in SeqsUpTo(Vars, MaxReq)}

\* The skills of the longer lists.
ListSkills ==
  {Skill("s2", k, None, r) : k \in Keys, r \in SeqsUpTo(Vars, 1)}

\* The lists load_skills returns and the overlay maps of the configuration.
EnabledSkillLists == SeqsUpTo(SkillUniverse, 1) \cup SeqsUpTo(ListSkills, MaxSkills)
EnabledEntryMaps == EntryMaps({None, "true", "false"})

InitEnabled ==
  /\ env \in Environments
  /\ env0 = env
  /\ skills \in EnabledSkillLists
  /\ entries \in EnabledEntryMaps
  /\ guard = [s \in Scopes |-> IdleGuard]
  /\ run = IdleRun
  /\ EligUnused
  /\ LoaderUnused

NextEnabled == LoadSkillsForRun

SpecEnabled == InitEnabled /\ [][NextEnabled]_vars

\* The elements of a sequence.
Range(q) == {q[i] : i \in 1..Len(q)}

\* C5: a skill whose overlay entry, found by skill key, has enabled = false is
\* not enabled and is not in the list load_skills_for_run returns, whatever the
\* environment, the entry's env map and API key and the skill's requirements.
C5_ExplicitFalseDisables ==
  \A i \in 1..Len(skills) :
    (EntryAt(i).present /\ EntryAt(i).enabled = "false") =>
      /\ ~is_skill_enabled(skills[i], entries, env)
      /\ run.pc = "done" => skills[i] \notin Range(run.result)

\* load_skills_for_run ran over a skill whose key finds an entry with
\* enabled = false, whose display name finds an entry that does not disable it,
\* and whose requirements are all met.
C5_Witness ==
  /\ run.pc = "done"
  /\ \E i \in 1..Len(skills) :
       /\ skills[i].name # skills[i].skill_key
       /\ EntryAt(i).present /\ EntryAt(i).enabled = "false"
       /\ entries[skills[i].name].present /\ entries[skills[i].name].enabled = "true"
       /\ skills[i].requires_env # <<>>
       /\ \A v \in Range(skills[i].requires_env) : env[v] # Absent

\* A required variable the environment, the entry's env map or the entry's API
\* key (for the primary variable) supplies.
Satisfiable(sk, v) ==
  \/ env[v] # Absent
  \/ entries[sk.skill_key].present /\ v \in EnvKeys(entries[sk.skill_key])
  \/ /\ entries[sk.skill_key].present
     /\ v = sk.primary_env
     /\ entries[sk.skill_key].api_key # None

\* C6: a skill whose entry is absent, or has enabled absent or true, is enabled
\* (and kept by load_skills_for_run) iff each required variable is set in the
\* environment, named by the entry's env map, or is the primary variable of a
\* skill whose entry has an API key.
C6_EnabledIffSatisfiable ==
  \A i \in 1..Len(skills) :
    (~EntryAt(i).present \/ EntryAt(i).enabled \in {None, "true"}) =>
      /\ is_skill_enabled(skills[i], entries, env)
           = (\A v \in Range(skills[i].requires_env) : Satisfiable(skills[i], v))
      /\ ~EntryAt(i).present =>
           (is_skill_enabled(skills[i], entries, env)
              = (\A v \in Range(skills[i].requires_env) : env[v] # Absent))
      /\ run.pc = "done" =>
           ((skills[i] \in Range(run.result))
              = (\A v \in Range(skills[i].requires_env) : Satisfiable(skills[i], v)))

\* load_skills_for_run kept a skill with two required variables, one met by the
\* entry's env map and one by its API key, neither set in the environment.
C6_Witness ==
  /\ run.pc = "done"
  /\ \E i \in 1..Len(skills) :
       /\ skills[i] \in Range(run.result)
       /\ Len(skills[i].requires_env) = 2
       /\ \A v \in Range(skills[i].requires_env) : env[v] = Absent
       /\ skills[i].primary_env \in Range(skills[i].requires_env)
       /\ skills[i].primary_env \notin EnvKeys(EntryAt(i))
       /\ EnvKeys(EntryAt(i)) # {}

\* ------------------------------------------------------- gating evaluator
\* enum SkillOs, as {:?} prints it.
SkillOs == {"Linux", "Darwin", "Win32"}
\* The target_os values the program is built for.
TargetOs == {"linux", "macos", "windows"}

\* mod.rs:168-176  current_os
current_os(target) ==
  IF target = "linux" THEN "Linux"
  ELSE IF target = "macos" THEN "Darwin"
  ELSE "Win32"

\* The binary names of the gating metadata: a plain name, a name holding a path
\* separator, and a blank name.
BinNames == {"git", "/x/tool", " "}
\* The environment values of the evaluator: empty, whitespace only, and set.
\* str::trim
trim(str) == IF str = " " THEN "" ELSE str
\* bin.contains(std::path::MAIN_SEPARATOR)
contains_separator(bin) == bin = "/x/tool"
\* entry.join(bin)
join(dir, bin) == dir \o "/" \o bin

\* The host the evaluator reads: build target, regular files, PATH, the
\* process environment and the config.toml files.
World(target, fs, path, e, cfgs) ==
  [host |-> target, files |-> fs, pathVar |-> path, env |-> e, configFiles |-> cfgs]

\* mod.rs:499-516  find_binary_in_path
MutFindBinaryIgnoresOverride(bin, path_override, w) ==
  IF trim(bin) = "" THEN FALSE
  ELSE IF contains_separator(bin) THEN bin \in w.files
  ELSE IF ~w.pathVar.some THEN FALSE
  ELSE \E i \in 1..Len(w.pathVar.val) : join(w.pathVar.val[i], bin) \in w.files

find_binary_in_path(bin, path_override, w) ==
  IF trim(bin) = "" THEN FALSE
  ELSE IF contains_separator(bin) THEN bin \in w.files
  ELSE LET path_value == IF path_override.some THEN path_override ELSE w.pathVar
       IN  IF ~path_value.some THEN FALSE
           ELSE \E i \in 1..Len(path_value.val) :
                  join(path_value.val[i], bin) \in w.files

\* mod.rs:518-522  workspace_config_path
workspace_config_path(workspace_dir) ==
  IF Len(workspace_dir) = 0 THEN Append(workspace_dir, "config.toml")
  ELSE Append(SubSeq(workspace_dir, 1, Len(workspace_dir) - 1), "config.toml")

\* key.split('.')
split_dots(key) ==
  IF key = "a.b" THEN <<"a", "b">> ELSE <<key>>

\* mod.rs:533-541  the walk down the document, one part of the key at a time
RECURSIVE walk_config(_, _, _)
walk_config(doc, parts, i) ==
  IF i > Len(parts) THEN TRUE
  ELSE IF SubSeq(parts, 1, i) \notin doc.paths THEN FALSE
  ELSE walk_config(doc, parts, i + 1)

\* mod.rs:524-542  has_config_key
MutHasConfigKeyNeverResolves(workspace_dir, key, w) == FALSE

has_config_key(workspace_dir, key, w) ==
  LET path == workspace_config_path(workspace_dir)
      content == IF path \in DOMAIN w.configFiles THEN w.configFiles[path]
                 ELSE MissingFile
  IN  IF content.kind = "missing" THEN FALSE
      ELSE IF content.kind = "invalid" THEN FALSE
      ELSE walk_config(content, split_dots(key), 1)

\* mod.rs:587-590  the effective value of a required variable is present
MutEnvPresentWithoutTrim(env_name, env_override, w) ==
  LET overridden == IF env_override.some THEN env_override.val[env_name] ELSE None
      value == IF overridden # None THEN overridden
               ELSE IF w.env[env_name] # Absent THEN w.env[env_name]
               ELSE None
  IN  value # None

env_present(env_name, env_override, w) ==
  LET overridden == IF env_override.some THEN env_override.val[env_name] ELSE None
      value == IF overridden # None THEN overridden
               ELSE IF w.env[env_name] # Absent THEN w.env[env_name]
               ELSE None
  IN  value # None /\ trim(value) # ""

\* any_bins.join(", ")
RECURSIVE join_comma(_)
join_comma(list) ==
  IF Len(list) = 0 THEN ""
  ELSE IF Len(list) = 1 THEN list[1]
  ELSE list[1] \o ", " \o join_comma(Tail(list))

\* mod.rs:563, 569, 580-583, 592, 598-600  the reasons, as format! writes them
ReasonOs(required_os, os) ==
  "requires os=" \o required_os \o ", current os=" \o os
ReasonBin(bin) == "missing required binary '" \o bin \o "' on PATH"
ReasonAnyBins(any_bins) ==
  "missing any required binary on PATH (" \o join_comma(any_bins) \o ")"
ReasonEnv(env_name) == "missing required env '" \o env_name \o "'"
ReasonConfig(key) ==
  "requires.config '" \o key \o "' unsupported currently (no matching config found)"

\* mod.rs:560-565  the required OS
push_os(reasons, gating, w) ==
  IF gating.os # None /\ gating.os # current_os(w.host)
  THEN Append(reasons, ReasonOs(gating.os, current_os(w.host)))
  ELSE reasons

\* mod.rs:567-571  for bin in &gating.requires.bins
RECURSIVE push_bins(_, _, _, _, _)
push_bins(reasons, bins, i, path_override, w) ==
  IF i > Len(bins) THEN reasons
  ELSE push_bins(IF ~find_binary_in_path(bins[i], path_override, w)
                 THEN Append(reasons, ReasonBin(bins[i]))
                 ELSE reasons,
                 bins, i + 1, path_override, w)

\* mod.rs:573-584  the any-of binaries
push_any_bins(reasons, any_bins, path_override, w) ==
  IF /\ Len(any_bins) # 0
     /\ ~\E i \in 1..Len(any_bins) : find_binary_in_path(any_bins[i], path_override, w)
  THEN Append(reasons, ReasonAnyBins(any_bins))
  ELSE reasons

\* mod.rs:586-594  for env_name in &gating.requires.env
RECURSIVE push_env(_, _, _, _, _)
push_env(reasons, envs, i, env_override, w) ==
  IF i > Len(envs) THEN reasons
  ELSE push_env(IF ~env_present(envs[i], env_override, w)
                THEN Append(reasons, ReasonEnv(envs[i]))
                ELSE reasons,
                envs, i + 1, env_override, w)

\* mod.rs:596-602  for key in &gating.requires.config
RECURSIVE push_config(_, _, _, _, _)
push_config(reasons, keys, i, workspace_dir, w) ==
  IF i > Len(keys) THEN reasons
  ELSE push_config(IF ~has_config_key(workspace_dir, keys[i], w)
                   THEN Append(reasons, ReasonConfig(keys[i]))
                   ELSE reasons,
                   keys, i + 1, workspace_dir, w)

\* mod.rs:554  if gating.always
MutAlwaysIgnored(gating) == FALSE

always_eligible(gating) == gating.always

\* mod.rs:544-605  evaluate_skill_eligibility
evaluate_skill_eligibility(openclaw, workspace_dir, path_override, env_override, w) ==
  IF ~openclaw.present THEN [eligible |-> TRUE, reasons |-> <<>>]
  ELSE IF always_eligible(openclaw) THEN [eligible |-> TRUE, reasons |-> <<>>]
  ELSE LET r1 == push_os(<<>>, openclaw, w)
           r2 == push_bins(r1, openclaw.requires.bins, 1, path_override, w)
           r3 == push_any_bins(r2, openclaw.requires.any_bins, path_override, w)
           r4 == push_env(r3, openclaw.requires.env, 1, env_override, w)
           r5 == push_config(r4, openclaw.requires.config, 1, workspace_dir, w)
       IN  [eligible |-> Len(r5) = 0, reasons |-> r5]

\* The host of the current state.
Host == World(hostOs, files, pathVar, env, configFiles)

\* A call of evaluate_skill_eligibility with the arguments the state holds.
Evaluate ==
  /\ elig.pc = "call"
  /\ LET r == evaluate_skill_eligibility(elig.openclaw, elig.workspace_dir,
                                         elig.path_override, elig.env_override, Host)
     IN  elig' = [elig EXCEPT !.pc = "done", !.eligible = r.eligible,
                                !.reasons = r.reasons]
  /\ UNCHANGED <<env, env0, skills, entries, guard, run,
                 hostOs, files, pathVar, configFiles, loaderWorld>>

\* ----------------------------------------------- inputs of the evaluator
\* Each input varies one kind of requirement over all its cases while the other
\* kinds take one satisfied and one unsatisfied case.
BinDirs == {"d0", "d1"}
SearchPaths == {NoDirs, Some(<<"d0", "d1">>)}
PathOverrides == {NoDirs, Some(<<"d1">>), Some(<<"d0">>)}
FileSets == SUBSET {"d1/git", "/x/tool"}
BinLists == SeqsUpTo(BinNames, MaxRequires)
AnyBinLists == SeqsUpTo({"git", "/x/tool"}, MaxRequires)
EligEnvs == [Vars -> {Absent, " ", "v"}]
EnvOverrides == {NoMap} \cup {Some(m) : m \in [Vars -> {None, "", "v"}]}
EnvLists == SeqsUpTo(Vars, MaxRequires)
ConfigKeys == {"a", "a.b"}
ConfigLists == SeqsUpTo(ConfigKeys, MaxRequires)
BesideContents ==
  {MissingFile, InvalidToml, Toml({}), Toml({<<"a">>}), Toml({<<"a">>, <<"a", "b">>})}
InsideContents == {MissingFile, Toml({<<"a">>, <<"a", "b">>})}
WorkspaceDirs == {WorkspaceDir, <<>>}

OsCase(target, os) == [host |-> target, os |-> os]
BinCase(fs, path, over, bins, any_bins) ==
  [files |-> fs, pathVar |-> path, path_override |-> over,
   bins |-> bins, any_bins |-> any_bins]
EnvCase(e, over, envs) == [env |-> e, env_override |-> over, envs |-> envs]
CfgCase(beside, inside, ws, keys) ==
  [configFiles |-> [p \in ConfigPaths |-> IF p = ConfigBeside THEN beside ELSE inside],
   workspace_dir |-> ws, keys |-> keys]

OsCases == {OsCase(t, o) : t \in TargetOs, o \in {None} \cup SkillOs}
BinCases ==
  {BinCase(fs, p, o, b, a) :
     fs \in FileSets, p \in SearchPaths, o \in PathOverrides,
     b \in BinLists, a \in {<<>>, <<"git", "/x/tool">>}}
  \cup
  {BinCase(fs, p, o, b, a) :
     fs \in FileSets, p \in SearchPaths, o \in PathOverrides,
     b \in {<<>>, <<"/x/tool">>}, a \in AnyBinLists}
EnvCases == {EnvCase(e, o, n) : e \in EligEnvs, o \in EnvOverrides, n \in EnvLists}
CfgCases ==
  {CfgCase(b, i, w, k) :
     b \in BesideContents, i \in InsideContents, w \in WorkspaceDirs,
     k \in ConfigLists}

OsPair == {OsCase("linux", None), OsCase("linux", "Darwin")}
BinPair ==
  {BinCase({"d1/git"}, Some(<<"d0", "d1">>), NoDirs, b, <<>>) :
     b \in {<<>>, <<"/x/tool">>}}
EnvPair == {EnvCase([v \in Vars |-> Absent], NoMap, n) : n \in {<<>>, <<"A">>}}
CfgPair ==
  {CfgCase(Toml({<<"a">>}), MissingFile, WorkspaceDir, k) : k \in {<<>>, <<"a.b">>}}

Scenario(o, b, e, c) == [os |-> o, bin |-> b, env |-> e, cfg |-> c]
Scenarios ==
  {Scenario(o, b, e, c) : o \in OsCases, b \in BinPair, e \in EnvPair, c \in CfgPair}
  \cup
  {Scenario(o, b, e, c) : o \in OsPair, b \in BinCases, e \in EnvPair, c \in CfgPair}
  \cup
  {Scenario(o, b, e, c) : o \in OsPair, b \in BinPair, e \in EnvCases, c \in CfgPair}
  \cup
  {Scenario(o, b, e, c) : o \in OsPair, b \in BinPair, e \in EnvPair, c \in CfgCases}

\* The gating metadata of a scenario.
GatingOf(sc, always) ==
  Gating(always, sc.os.os,
         Requires(sc.bin.bins, sc.bin.any_bins, sc.env.envs, sc.cfg.keys))

\* A call about to be made: a skill's gating metadata (or none) and the
\* overrides, on a host.
InitElig ==
  /\ \E sc \in Scenarios, shape \in {"none", "always", "gated"} :
       /\ hostOs = sc.os.host
       /\ files = sc.bin.files
       /\ pathVar = sc.bin.pathVar
       /\ env = sc.env.env
       /\ configFiles = sc.cfg.configFiles
       /\ elig = [NoCall EXCEPT
                    !.pc = "call",
                    !.openclaw = IF shape = "none" THEN NoGating
                                 ELSE GatingOf(sc, shape = "always"),
                    !.workspace_dir = sc.cfg.workspace_dir,
                    !.path_override = sc.bin.path_override,
                    !.env_override = sc.env.env_override]
  /\ env0 = env
  /\ skills = <<>>
  /\ entries = [k \in Keys |-> NoEntry]
  /\ guard = [s \in Scopes |-> IdleGuard]
  /\ run = IdleRun
  /\ LoaderUnused

NextElig == Evaluate

SpecElig == InitElig /\ [][NextElig]_vars

\* -------------------------------------------------- claims on the evaluator
\* The call has returned.
Returned == elig.pc = "done"
\* What the call returned.
Result == [eligible |-> elig.eligible, reasons |-> elig.reasons]
\* The metadata of the call with its always flag cleared.
WithoutAlways == [elig.openclaw EXCEPT !.always = FALSE]
\* The sequence of F(x) for the x of a list.
MapSeq(F(_), list) == [i \in 1..Len(list) |-> F(list[i])]

\* C7: with always = true the evaluator returns eligible = true and an empty
\* reason list, whatever the required OS, binaries, any-of binaries,
\* environment variables and config keys are.
C7_AlwaysEligible ==
  (Returned /\ elig.openclaw.present /\ elig.openclaw.always)
    => (elig.eligible = TRUE /\ elig.reasons = <<>>)

\* A call with always = true returned eligible although the required OS, a
\* required binary, a required variable and a required config key all fail.
C7_Witness ==
  /\ Returned /\ elig.openclaw.present /\ elig.openclaw.always
  /\ elig.eligible /\ elig.reasons = <<>>
  /\ Len(evaluate_skill_eligibility(WithoutAlways, elig.workspace_dir,
           elig.path_override, elig.env_override, Host).reasons) >= 4

\* The value a required variable takes: the override map's when the map holds
\* the name, else the process environment's, else none.
EffectiveValue(name) ==
  IF elig.env_override.some /\ elig.env_override.val[name] # None
  THEN elig.env_override.val[name]
  ELSE IF env[name] # Absent THEN env[name] ELSE None

\* The reasons of the unmet requirements, kind by kind in the stated order and
\* in declared order within a kind.
UnmetReasons ==
  LET g == elig.openclaw
      BinUnmet(b) == ~find_binary_in_path(b, elig.path_override, Host)
      EnvUnmet(n) == EffectiveValue(n) \in {None, "", " "}
      KeyUnmet(k) == ~has_config_key(elig.workspace_dir, k, Host)
      OsPart == IF g.os # None /\ g.os # current_os(hostOs)
                THEN <<ReasonOs(g.os, current_os(hostOs))>> ELSE <<>>
      AnyPart == IF /\ g.requires.any_bins # <<>>
                    /\ \A i \in 1..Len(g.requires.any_bins) :
                         BinUnmet(g.requires.any_bins[i])
                 THEN <<ReasonAnyBins(g.requires.any_bins)>> ELSE <<>>
  IN  OsPart
      \o MapSeq(ReasonBin, SelectSeq(g.requires.bins, BinUnmet))
      \o AnyPart
      \o MapSeq(ReasonEnv, SelectSeq(g.requires.env, EnvUnmet))
      \o MapSeq(ReasonConfig, SelectSeq(g.requires.config, KeyUnmet))

\* C8: without gating metadata the evaluator returns (true, []); with metadata
\* and always = false it is eligible iff the reason list is empty, and the list
\* holds one reason per unmet requirement in the order OS, required binaries,
\* any-of binaries, environment variables, config keys.
C8_ReasonsPerUnmetRequirement ==
  Returned =>
    /\ ~elig.openclaw.present => (elig.eligible = TRUE /\ elig.reasons = <<>>)
    /\ (elig.openclaw.present /\ ~elig.openclaw.always) =>
         /\ elig.eligible = (elig.reasons = <<>>)
         /\ elig.reasons = UnmetReasons

\* A call with always = false returned the reasons of a failing required
\* binary, a failing any-of list and a missing variable, in that order.
C8_Witness ==
  /\ Returned /\ elig.openclaw.present /\ ~elig.openclaw.always
  /\ ~elig.eligible
  /\ elig.openclaw.requires.bins = <<"git", "/x/tool">>
  /\ \E i \in 1..(Len(elig.reasons) - 2) :
       /\ elig.reasons[i] = ReasonBin("/x/tool")
       /\ elig.reasons[i + 1] = ReasonAnyBins(<<"git", "/x/tool">>)
       /\ elig.reasons[i + 2] = ReasonEnv("A")

\* A call without gating metadata returned (true, []).
C8_WitnessNoGating ==
  Returned /\ ~elig.openclaw.present /\ elig.eligible /\ elig.reasons = <<>>

\* The call of the state, made on a host whose process environment and PATH are
\* e and path instead.
ResultOn(e, path) ==
  evaluate_skill_eligibility(elig.openclaw, elig.workspace_dir, elig.path_override,
                             elig.env_override, World(hostOs, files, path, e, configFiles))

\* Same arguments, any other process environment: same result.
SameOnEveryEnvironment ==
  \A e \in EligEnvs, path \in SearchPaths : ResultOn(e, path) = Result

\* C9 as claimed: for fixed metadata, workspace, path override and environment
\* override map, evaluations that differ only in the process environment return
\* the same boolean and the same reasons, also for required variables missing
\* from the override map.
C9_Original == Returned => SameOnEveryEnvironment

\* The binary is looked up in the directories of the search path.
SearchedOnPath(bin) == trim(bin) # "" /\ ~contains_separator(bin)

\* The overrides leave nothing to read from the process environment: the map
\* holds every required variable, and a path override is given or no binary is
\* looked up on the search path.
OverridesCoverRequirements ==
  LET req == elig.openclaw.requires
  IN  /\ \A i \in 1..Len(req.env) :
           elig.env_override.some /\ elig.env_override.val[req.env[i]] # None
      /\ \/ elig.path_override.some
         \/ /\ \A i \in 1..Len(req.bins) : ~SearchedOnPath(req.bins[i])
            /\ \A i \in 1..Len(req.any_bins) : ~SearchedOnPath(req.any_bins[i])

\* C9: evaluations that differ only in the process environment return the same
\* boolean and the same reasons when the metadata is absent or has always =
\* true, or when the override map holds every required variable and a path
\* override is given or no binary is searched on PATH.
C9_PureUnderCoveringOverrides ==
  (/\ Returned
   /\ \/ ~elig.openclaw.present
      \/ elig.openclaw.always
      \/ OverridesCoverRequirements)
    => SameOnEveryEnvironment

\* A call with always = false whose override map holds an empty value for a
\* required variable that the process environment sets: the variable is
\* reported missing.
C9_Witness ==
  /\ Returned /\ elig.openclaw.present /\ ~elig.openclaw.always
  /\ OverridesCoverRequirements
  /\ \E i \in 1..Len(elig.openclaw.requires.env) :
       LET n == elig.openclaw.requires.env[i]
       IN  /\ elig.env_override.val[n] = ""
           /\ env[n] = "v"
           /\ ReasonEnv(n) \in Range(elig.reasons)

\* The document of the config.toml beside the workspace directory.
ConfigBesideWorkspace ==
  IF elig.workspace_dir = WorkspaceDir THEN configFiles[ConfigBeside] ELSE MissingFile

\* The dotted key leads to a value of that document.
KeyResolves(key) ==
  /\ ConfigBesideWorkspace.kind = "toml"
  /\ \A i \in 1..Len(split_dots(key)) :
       SubSeq(split_dots(key), 1, i) \in ConfigBesideWorkspace.paths

\* The reasons about config keys, in the order returned.
ConfigReasons ==
  LET IsConfigReason(r) == r \in {ReasonConfig(k) : k \in ConfigKeys}
  IN  SelectSeq(elig.reasons, IsConfigReason)

\* C10 as claimed: with always = false every listed config key fails to resolve,
\* whatever config.toml holds: the skill is ineligible and there is one
\* 'unsupported currently' reason per listed key.
C10_Original ==
  (Returned /\ elig.openclaw.present /\ ~elig.openclaw.always
     /\ elig.openclaw.requires.config # <<>>)
    => /\ ~elig.eligible
       /\ ConfigReasons = MapSeq(ReasonConfig, elig.openclaw.requires.config)

\* C10: with always = false there is one 'unsupported currently' reason per
\* listed config key that does not resolve in the config.toml beside the
\* workspace (no file, not TOML, or a part of the key missing), in declared
\* order, and none for a key that resolves; a key that does not resolve makes
\* the skill ineligible.
C10_UnsupportedIffUnresolved ==
  (Returned /\ elig.openclaw.present /\ ~elig.openclaw.always) =>
    LET Unresolved(k) == ~KeyResolves(k)
        failing == SelectSeq(elig.openclaw.requires.config, Unresolved)
    IN  /\ ConfigReasons = MapSeq(ReasonConfig, failing)
        /\ failing # <<>> => ~elig.eligible

\* A call with always = false on a config.toml that holds the first listed key
\* and not the second: one reason, for the second key.
C10_Witness ==
  /\ Returned /\ elig.openclaw.present /\ ~elig.openclaw.always
  /\ elig.openclaw.requires.config = <<"a", "a.b">>
  /\ configFiles[ConfigBeside] = Toml({<<"a">>})
  /\ ConfigReasons = <<ReasonConfig("a.b")>>
  /\ ~elig.eligible

\* ------------------------------------------------------------------- text
\* A line of text is a sequence of tokens (a blank, a mark or a word) and a
\* document is the sequence of its lines, as str::lines yields them.
Blank == " "
Dashes == "---"
Colon == ":"
Hash == "#"

\* str::trim_start and str::trim on a line
RECURSIVE trim_start(_)
trim_start(line) ==
  IF line # <<>> /\ Head(line) = Blank THEN trim_start(Tail(line)) ELSE line

RECURSIVE trim_end(_)
trim_end(line) ==
  IF line # <<>> /\ line[Len(line)] = Blank
  THEN trim_end(SubSeq(line, 1, Len(line) - 1)) ELSE line

trim_line(line) == trim_end(trim_start(line))

\* str::starts_with('#')
starts_with_hash(line) == line # <<>> /\ Head(line) = Hash

\* str::split_once(':'): the parts before and after the first colon
split_once(line) ==
  IF \E i \in 1..Len(line) : line[i] = Colon
  THEN LET i == CHOOSE j \in 1..Len(line) :
                  /\ line[j] = Colon
                  /\ \A k \in 1..(j - 1) : line[k] # Colon
       IN  [some |-> TRUE, key |-> SubSeq(line, 1, i - 1),
            value |-> SubSeq(line, i + 1, Len(line))]
  ELSE [some |-> FALSE, key |-> <<>>, value |-> <<>>]

\* serde_json::from_str::<Value> on the texts of the model: an object, a value
\* that is no object, or no JSON at all.
json_kind(value) ==
  IF value = <<"{}">> THEN "object"
  ELSE IF value = <<"[1]">> THEN "array"
  ELSE "invalid"

\* ------------------------------------- skill_md.rs: parse_skill_md_content
NoValue == [some |-> FALSE, val |-> <<>>]
ParseErr(msg) ==
  [ok |-> FALSE, error |-> msg, name |-> <<>>, description |-> <<>>,
   metadata |-> NoValue]
ParseOk(name, description, metadata) ==
  [ok |-> TRUE, error |-> "", name |-> name, description |-> description,
   metadata |-> metadata]

\* skill_md.rs:17 and 25  line.trim() == "---"
is_delimiter(line) == trim_line(line) = <<Dashes>>

\* skill_md.rs:24-30  the index of the line that closes the block, 0 if none
RECURSIVE find_end(_, _)
find_end(content, i) ==
  IF i > Len(content) THEN 0
  ELSE IF is_delimiter(content[i]) THEN i
  ELSE find_end(content, i + 1)

\* What the loop over the frontmatter lines holds: the three keys and the error
\* that ended it.
NoKeys == [name |-> NoValue, description |-> NoValue, metadata |-> NoValue, error |-> ""]

\* skill_md.rs:40-66  one frontmatter line
MutFirstKeyWins(acc, line) ==
  LET trimmed == trim_line(line)
      kv == split_once(trimmed)
      key == trim_line(kv.key)
      value == trim_line(kv.value)
  IN  IF trimmed = <<>> \/ starts_with_hash(trimmed) THEN acc
      ELSE IF ~kv.some THEN acc
      ELSE IF key = <<"name">>
        THEN IF acc.name.some THEN acc ELSE [acc EXCEPT !.name = Some(value)]
      ELSE IF key = <<"description">>
        THEN IF acc.description.some THEN acc
             ELSE [acc EXCEPT !.description = Some(value)]
      ELSE IF key = <<"metadata">>
        THEN IF json_kind(value) = "invalid"
             THEN [acc EXCEPT !.error = "metadata must be valid JSON object"]
             ELSE IF json_kind(value) # "object"
             THEN [acc EXCEPT !.error = "metadata must be a JSON object"]
             ELSE [acc EXCEPT !.metadata = Some(value)]
      ELSE acc

frontmatter_line(acc, line) ==
  LET trimmed == trim_line(line)
      kv == split_once(trimmed)
      key == trim_line(kv.key)
      value == trim_line(kv.value)
  IN  IF trimmed = <<>> \/ starts_with_hash(trimmed) THEN acc
      ELSE IF ~kv.some THEN acc
      ELSE IF key = <<"name">> THEN [acc EXCEPT !.name = Some(value)]
      ELSE IF key = <<"description">> THEN [acc EXCEPT !.description = Some(value)]
      ELSE IF key = <<"metadata">>
        THEN IF json_kind(value) = "invalid"
             THEN [acc EXCEPT !.error = "metadata must be valid JSON object"]
             ELSE IF json_kind(value) # "object"
             THEN [acc EXCEPT !.error = "metadata must be a JSON object"]
             ELSE [acc EXCEPT !.metadata = Some(value)]
      ELSE acc

\* skill_md.rs:40-66  for line in frontmatter_lines, left by `?` and bail!
RECURSIVE frontmatter_keys(_, _, _)
frontmatter_keys(acc, lines, i) ==
  IF i > Len(lines) \/ acc.error # "" THEN acc
  ELSE frontmatter_keys(frontmatter_line(acc, lines[i]), lines, i + 1)

\* skill_md.rs:11-80  parse_skill_md_content
parse_skill_md_content(content) ==
  IF Len(content) = 0 THEN ParseErr("missing frontmatter start delimiter")
  ELSE IF ~is_delimiter(content[1]) THEN ParseErr("missing frontmatter start delimiter")
  ELSE LET end == find_end(content, 2)
       IN  IF end = 0 THEN ParseErr("missing frontmatter end delimiter")
           ELSE LET keys == frontmatter_keys(NoKeys, SubSeq(content, 2, end - 1), 1)
                IN  IF keys.error # "" THEN ParseErr(keys.error)
                    ELSE IF ~keys.name.some \/ keys.name.val = <<>>
                      THEN ParseErr("missing required frontmatter key: name")
                    ELSE IF ~keys.description.some \/ keys.description.val = <<>>
                      THEN ParseErr("missing required frontmatter key: description")
                    ELSE ParseOk(keys.name.val, keys.description.val, keys.metadata)

\* The lines a SKILL.md document is made of.
DelimiterLine == <<Dashes>>
PaddedDelimiter == <<Blank, Dashes, Blank>>
FourDashes == <<Dashes, "-">>
NameLine == <<"name", Colon, Blank, "x">>
EmptyNameLine == <<"name", Colon, Blank>>
DescriptionLine == <<Blank, "description", Blank, Colon, "d", Colon, "e">>
EmptyDescriptionLine == <<"description", Colon>>
ObjectLine == <<"metadata", Colon, Blank, "{}">>
ArrayLine == <<"metadata", Colon, "[1]">>
BadJsonLine == <<"metadata", Colon, "{bad">>
CommentedName == <<Hash, "name", Colon, "x">>
BodyLine == <<"body">>

BlockLines ==
  {NameLine, EmptyNameLine, DescriptionLine, EmptyDescriptionLine, ObjectLine,
   ArrayLine, BadJsonLine, CommentedName, BodyLine}
Heads ==
  {<<>>, <<DelimiterLine>>, <<PaddedDelimiter>>, <<FourDashes>>,
   <<<<>>, DelimiterLine>>}
Tails ==
  {<<>>, <<DelimiterLine>>, <<PaddedDelimiter, BodyLine>>, <<FourDashes>>,
   <<DelimiterLine, NameLine, DescriptionLine, DelimiterLine>>}
Blocks == SeqsUpTo(BlockLines, MaxBlock)
FewBlocks == {<<>>, <<NameLine>>, <<NameLine, DescriptionLine>>}
\* Every head and tail around a few blocks, and every block between delimiters.
Contents ==
  {h \o b \o t : h \in Heads, b \in FewBlocks, t \in Tails}
  \cup
  {<<DelimiterLine>> \o b \o t :
     b \in Blocks, t \in {<<DelimiterLine>>, <<PaddedDelimiter, BodyLine>>}}

\* parse_skill_md_content has not been called.
NoParse == [pc |-> "call", content |-> <<>>, result |-> ParseErr("")]

\* Every part of the state but md.
parseFrame == <<env, env0, skills, entries, guard, run, eligWorld, disc, sync, rm, lateWorld>>

InitParse ==
  /\ \E c \in Contents : md = [NoParse EXCEPT !.content = c]
  /\ env = [v \in Vars |-> Absent]
  /\ env0 = env
  /\ skills = <<>>
  /\ entries = [k \in Keys |-> NoEntry]
  /\ guard = [s \in Scopes |-> IdleGuard]
  /\ run = IdleRun
  /\ EligUnused
  /\ disc = Unused /\ sync = Unused /\ rm = Unused /\ LateUnused

\* A call of parse_skill_md_content.
Parse ==
  /\ md.pc = "call"
  /\ md' = [md EXCEPT !.pc = "done", !.result = parse_skill_md_content(md.content)]
  /\ UNCHANGED parseFrame

NextParse == Parse

SpecParse == InitParse /\ [][NextParse]_vars

\* ----------------------------------------------------- claims on the parser
Parsed == md.pc = "done"

\* The index of the first line after the first that closes the block, 0 if none.
BlockEnd(close(_)) ==
  IF \E i \in 2..Len(md.content) : close(md.content[i])
  THEN CHOOSE i \in 2..Len(md.content) :
         /\ close(md.content[i])
         /\ \A j \in 2..(i - 1) : ~close(md.content[j])
  ELSE 0

\* The values of the lines of the block that give the key: lines that are
\* neither blank nor comments, split at their first colon.
ValuesOf(key, end) ==
  LET block == SubSeq(md.content, 2, end - 1)
      Gives(line) ==
        /\ trim_line(line) # <<>>
        /\ ~starts_with_hash(trim_line(line))
        /\ split_once(trim_line(line)).some
        /\ trim_line(split_once(trim_line(line)).key) = <<key>>
      ValueOfLine(line) == trim_line(split_once(trim_line(line)).value)
  IN  MapSeq(ValueOfLine, SelectSeq(block, Gives))

\* C13 as claimed: Ok iff the first line holds nothing but three dashes, a later
\* line holding nothing but three dashes closes the block, the block has a name
\* and a description key with a non-empty value and a metadata key, if there,
\* has a JSON object as its value.
C13_Original ==
  Parsed =>
    (md.result.ok <=>
       LET Exact(line) == line = <<Dashes>>
           end == BlockEnd(Exact)
       IN  /\ Len(md.content) >= 1 /\ Exact(md.content[1])
           /\ end # 0
           /\ \E i \in 1..Len(ValuesOf("name", end)) : ValuesOf("name", end)[i] # <<>>
           /\ \E i \in 1..Len(ValuesOf("description", end)) :
                ValuesOf("description", end)[i] # <<>>
           /\ \A i \in 1..Len(ValuesOf("metadata", end)) :
                json_kind(ValuesOf("metadata", end)[i]) = "object")

\* The document is well formed: delimiters are compared after trimming, the
\* last line of a key is the one that counts, and every metadata line has to
\* hold a JSON object.
WellFormed ==
  LET Trimmed(line) == trim_line(line) = <<Dashes>>
      end == BlockEnd(Trimmed)
      LastNonEmpty(values) == values # <<>> /\ values[Len(values)] # <<>>
  IN  /\ Len(md.content) >= 1 /\ Trimmed(md.content[1])
      /\ end # 0
      /\ LastNonEmpty(ValuesOf("name", end))
      /\ LastNonEmpty(ValuesOf("description", end))
      /\ \A i \in 1..Len(ValuesOf("metadata", end)) :
           json_kind(ValuesOf("metadata", end)[i]) = "object"

\* C13: parse_skill_md_content returns Ok iff the first line, trimmed, is three
\* dashes, a later line that trims to three dashes closes the block, the last
\* name line and the last description line of the block have non-empty values
\* and every metadata line of the block holds a JSON object; every other input
\* returns an error.
C13_OkIffWellFormed == Parsed => (md.result.ok <=> WellFormed)

\* A document closed by a padded delimiter whose name is given twice, first
\* empty, was parsed with the second name.
C13_Witness ==
  /\ Parsed /\ md.result.ok
  /\ md.content[Len(md.content) - 1] = PaddedDelimiter
  /\ ValuesOf("name", BlockEnd(is_delimiter)) = << <<>>, <<"x">> >>
  /\ md.result.name = <<"x">>

\* A document with both delimiters, name and description was refused for its
\* metadata.
C13_WitnessRefused ==
  /\ Parsed /\ ~md.result.ok
  /\ md.result.error = "metadata must be a JSON object"
  /\ md.content = <<DelimiterLine, NameLine, DescriptionLine, ArrayLine, DelimiterLine>>

\* ------------------------------------------------------- files of a skill
\* A file as a loader meets it: absent, there but not readable as text (a
\* directory of that name, bytes that are no UTF-8), or a text.
NoManifest ==
  [syntax_ok |-> FALSE, name |-> None, description |-> <<>>, has_description |-> FALSE,
   skill_key |-> None, top |-> NoGating, nested |-> NoGating]
NoFile == [kind |-> "absent", manifest |-> NoManifest, lines |-> <<>>]
UnreadableFile == [kind |-> "unreadable", manifest |-> NoManifest, lines |-> <<>>]
\* The text of a SKILL.toml, by what toml::from_str::<SkillManifest> meets in it.
TomlFile(manifest) == [kind |-> "text", manifest |-> manifest, lines |-> <<>>]
\* The text of a markdown file, by its lines.
MdFile(lines) == [kind |-> "text", manifest |-> NoManifest, lines |-> lines]

\* struct SkillManifest (mod.rs:98-132): [skill] name and description are
\* required, metadata.openclaw may sit at the top or under [skill].
Manifest(name, description, key, top, nested) ==
  [syntax_ok |-> TRUE, name |-> name, description |-> description,
   has_description |-> TRUE, skill_key |-> key, top |-> top, nested |-> nested]

\* struct Skill as the loaders fill it.
LoadedSkill(name, description, key, version, eligible, reasons, location) ==
  [name |-> name, description |-> description, skill_key |-> key,
   version |-> version, eligible |-> eligible, ineligible_reasons |-> reasons,
   location |-> location]
NoSkill == LoadedSkill("", <<>>, "", "", FALSE, <<>>, <<>>)
Loaded(skill) == [ok |-> TRUE, skill |-> skill]
LoadFailed == [ok |-> FALSE, skill |-> NoSkill]

\* mod.rs:694-701  extract_description
RECURSIVE first_meaningful(_, _)
first_meaningful(lines, i) ==
  IF i > Len(lines) THEN <<"No", Blank, "description">>
  ELSE IF ~starts_with_hash(lines[i]) /\ trim_line(lines[i]) # <<>> THEN lines[i]
  ELSE first_meaningful(lines, i + 1)

MutExtractUntrimmed(lines) == first_meaningful(lines, 1)

extract_description(lines) == trim_line(first_meaningful(lines, 1))

\* mod.rs:607-641  load_skill_toml
load_skill_toml(path, file, workspace_dir, w) ==
  IF file.kind # "text" THEN LoadFailed
  ELSE IF ~file.manifest.syntax_ok THEN LoadFailed
  ELSE IF file.manifest.name = None \/ ~file.manifest.has_description THEN LoadFailed
  ELSE LET manifest == file.manifest
           openclaw == IF manifest.top.present THEN manifest.top ELSE manifest.nested
           e == evaluate_skill_eligibility(openclaw, workspace_dir, NoDirs, NoMap, w)
       IN  Loaded(LoadedSkill(manifest.name, manifest.description,
                              IF manifest.skill_key # None THEN manifest.skill_key
                              ELSE manifest.name,
                              "0.1.0", e.eligible, e.reasons, path))

\* mod.rs:644-667  load_skill_md
load_skill_md(path, dir, file) ==
  IF file.kind # "text" THEN LoadFailed
  ELSE LET name == IF Len(dir) = 0 THEN "unknown" ELSE dir[Len(dir)]
       IN  Loaded(LoadedSkill(name, extract_description(file.lines), name,
                              "0.1.0", TRUE, <<>>, path))

\* An entry of a skills root: nothing of that name, a plain file, or a
\* directory with its SKILL.toml and its SKILL.md.
NoDirEntry == [kind |-> "absent", toml |-> NoFile, mdf |-> NoFile]
PlainFile == [kind |-> "file", toml |-> NoFile, mdf |-> NoFile]
SkillDir(toml, mdf) == [kind |-> "dir", toml |-> toml, mdf |-> mdf]

\* mod.rs:309-326  one entry of the root
MutFallsBackToMd(found, path, entry, workspace_dir, w) ==
  LET manifest_path == Append(path, "SKILL.toml")
      md_path == Append(path, "SKILL.md")
      t == load_skill_toml(manifest_path, entry.toml, workspace_dir, w)
      d == load_skill_md(md_path, path, entry.mdf)
  IN  IF entry.kind # "dir" THEN found
      ELSE IF entry.toml.kind # "absent" /\ t.ok THEN Append(found, t.skill)
      ELSE IF entry.mdf.kind # "absent"
        THEN IF d.ok THEN Append(found, d.skill) ELSE found
      ELSE found

MutAbortsOnFailure(found, path, entry, workspace_dir, w) ==
  LET manifest_path == Append(path, "SKILL.toml")
      md_path == Append(path, "SKILL.md")
      t == load_skill_toml(manifest_path, entry.toml, workspace_dir, w)
      d == load_skill_md(md_path, path, entry.mdf)
  IN  IF entry.kind # "dir" THEN found
      ELSE IF entry.toml.kind # "absent"
        THEN IF t.ok THEN Append(found, t.skill) ELSE <<>>
      ELSE IF entry.mdf.kind # "absent"
        THEN IF d.ok THEN Append(found, d.skill) ELSE <<>>
      ELSE found

visit_entry(found, path, entry, workspace_dir, w) ==
  LET manifest_path == Append(path, "SKILL.toml")
      md_path == Append(path, "SKILL.md")
      t == load_skill_toml(manifest_path, entry.toml, workspace_dir, w)
      d == load_skill_md(md_path, path, entry.mdf)
  IN  IF entry.kind # "dir" THEN found
      ELSE IF entry.toml.kind # "absent"
        THEN IF t.ok THEN Append(found, t.skill) ELSE found
      ELSE IF entry.mdf.kind # "absent"
        THEN IF d.ok THEN Append(found, d.skill) ELSE found
      ELSE found

\* mod.rs:309  for entry in entries.flatten(), in the order read_dir yields
RECURSIVE visit_entries(_, _, _, _, _, _, _)
visit_entries(found, order, i, skills_dir, root, workspace_dir, w) ==
  IF i > Len(order) THEN found
  ELSE visit_entries(visit_entry(found, Append(skills_dir, order[i]),
                                 root.entries[order[i]], workspace_dir, w),
                     order, i + 1, skills_dir, root, workspace_dir, w)

\* mod.rs:297-330  load_skills_from_directory
load_skills_from_directory(skills_dir, root, order, workspace_dir, w) ==
  IF root.kind = "absent" THEN <<>>
  ELSE IF root.kind # "dir" THEN <<>>
  ELSE visit_entries(<<>>, order, 1, skills_dir, root, workspace_dir, w)

\* mod.rs:292-295  load_workspace_skills
SkillsDirOf(workspace_dir) == Append(workspace_dir, "skills")

load_workspace_skills(workspace_dir, root, order, w) ==
  load_skills_from_directory(SkillsDirOf(workspace_dir), root, order, workspace_dir, w)

\* --------------------------------------------------- inputs of discovery
EntryNames == {"skill" \o ToString(i) : i \in 1..MaxEntries}
RequiresA == Gating(FALSE, None, Requires(<<>>, <<>>, <<"A">>, <<>>))
TomlFiles ==
  {NoFile, UnreadableFile,
   TomlFile(NoManifest),
   TomlFile([Manifest("no-description", <<>>, None, NoGating, NoGating)
               EXCEPT !.has_description = FALSE]),
   TomlFile(Manifest("from-toml", <<"TOML", Blank, "wins">>, None, NoGating, NoGating)),
   TomlFile(Manifest("gated", <<"needs", Blank, "A">>, "key", NoGating, RequiresA))}
MdFiles ==
  {NoFile, UnreadableFile,
   MdFile(<< <<Hash, Blank, "From", Blank, "MD">>, <<"MD", Blank, "description">> >>)}
DirEntries ==
  {NoDirEntry, PlainFile} \cup {SkillDir(t, d) : t \in TomlFiles, d \in MdFiles}

\* A skills root: not there, there but no directory, or a directory.
Root(kind, ents) == [kind |-> kind, entries |-> ents]
NoRoot == Root("absent", [n \in EntryNames |-> NoDirEntry])
Roots ==
  {NoRoot, Root("file", [n \in EntryNames |-> NoDirEntry])}
  \cup {Root("dir", ents) : ents \in [EntryNames -> DirEntries]}

\* The orders in which read_dir can yield the entries of a root.
Present(root) == {n \in EntryNames : root.entries[n].kind # "absent"}
ReadDirOrders(root) ==
  {q \in [1..Cardinality(Present(root)) -> Present(root)] :
     \A i, j \in 1..Len(q) : q[i] = q[j] => i = j}

\* Discovery has not been called.
NoDiscovery(root) == [pc |-> "call", root |-> root, result |-> <<>>]

InitDiscover ==
  /\ \E root \in Roots : disc = NoDiscovery(root)
  /\ env = [v \in Vars |-> Absent]
  /\ env0 = env
  /\ skills = <<>>
  /\ entries = [k \in Keys |-> NoEntry]
  /\ guard = [s \in Scopes |-> IdleGuard]
  /\ run = IdleRun
  /\ EligUnused
  /\ md = Unused /\ sync = Unused /\ rm = Unused /\ LateUnused

\* A call of load_workspace_skills on the workspace.
Discover ==
  /\ disc.pc = "call"
  /\ \E order \in ReadDirOrders(disc.root) :
       disc' = [disc EXCEPT !.pc = "done",
                  !.result = load_workspace_skills(WorkspaceDir, disc.root, order, Host)]
  /\ UNCHANGED <<env, env0, skills, entries, guard, run, eligWorld, md, sync, rm, lateWorld>>

NextDiscover == Discover

SpecDiscover == InitDiscover /\ [][NextDiscover]_vars

\* ---------------------------------------------------- claims on discovery
Discovered == disc.pc = "done"
DirOf(n) == Append(SkillsDirOf(WorkspaceDir), n)
\* The skills of the result that were loaded from the directory n.
SkillsFrom(n) ==
  LET Under(skill) == Len(skill.location) > Len(DirOf(n))
                      /\ SubSeq(skill.location, 1, Len(DirOf(n))) = DirOf(n)
  IN  SelectSeq(disc.result, Under)
\* The SKILL.toml of the entry holds a manifest.
TomlParses(entry) ==
  /\ entry.toml.kind = "text"
  /\ entry.toml.manifest.syntax_ok
  /\ entry.toml.manifest.name # None
  /\ entry.toml.manifest.has_description

\* C11: a skill directory that holds a SKILL.toml yields exactly one skill,
\* with the manifest's name and description, when the SKILL.toml parses, and no
\* skill when it does not; its SKILL.md is never used.
C11_TomlExclusive ==
  Discovered =>
    \A n \in EntryNames :
      LET entry == disc.root.entries[n]
      IN  (disc.root.kind = "dir" /\ entry.kind = "dir" /\ entry.toml.kind # "absent") =>
            IF TomlParses(entry)
            THEN /\ Len(SkillsFrom(n)) = 1
                 /\ SkillsFrom(n)[1].name = entry.toml.manifest.name
                 /\ SkillsFrom(n)[1].description = entry.toml.manifest.description
                 /\ SkillsFrom(n)[1].location = Append(DirOf(n), "SKILL.toml")
            ELSE SkillsFrom(n) = <<>>

\* A directory with both manifests yielded the skill of its SKILL.toml, and a
\* directory with a broken SKILL.toml and a readable SKILL.md yielded nothing.
C11_Witness ==
  /\ Discovered
  /\ \E n, m \in EntryNames :
       /\ disc.root.entries[n].mdf.kind = "text"
       /\ TomlParses(disc.root.entries[n])
       /\ Len(SkillsFrom(n)) = 1 /\ SkillsFrom(n)[1].name = "from-toml"
       /\ disc.root.entries[m].mdf.kind = "text"
       /\ disc.root.entries[m].toml.kind = "text"
       /\ ~disc.root.entries[m].toml.manifest.syntax_ok
       /\ SkillsFrom(m) = <<>>

\* The manifest discovery selects in a directory, and whether it loads.
SelectedManifest(entry) ==
  IF entry.toml.kind # "absent" THEN "SKILL.toml"
  ELSE IF entry.mdf.kind # "absent" THEN "SKILL.md"
  ELSE None
SelectedParses(entry) ==
  /\ entry.kind = "dir"
  /\ \/ SelectedManifest(entry) = "SKILL.toml" /\ TomlParses(entry)
     \/ SelectedManifest(entry) = "SKILL.md" /\ entry.mdf.kind = "text"

\* C12: discovery returns a list, never an error, that holds one skill for each
\* immediate subdirectory whose selected manifest parses and nothing else;
\* whether a subdirectory's skill is in it depends on that subdirectory alone.
C12_OnePerParsingDirectory ==
  Discovered =>
    LET yielding == IF disc.root.kind = "dir"
                    THEN {n \in EntryNames : SelectedParses(disc.root.entries[n])}
                    ELSE {}
    IN  /\ Len(disc.result) = Cardinality(yielding)
        /\ \A n \in EntryNames :
             IF n \in yielding
             THEN /\ Len(SkillsFrom(n)) = 1
                  /\ SkillsFrom(n)[1].location =
                       Append(DirOf(n), SelectedManifest(disc.root.entries[n]))
             ELSE SkillsFrom(n) = <<>>

\* A root with a directory whose manifest is broken and a directory whose
\* manifest parses yielded the skill of the second.
C12_Witness ==
  /\ Discovered
  /\ Len(disc.result) = 1
  /\ \E n, m \in EntryNames :
       /\ disc.root.entries[n].kind = "dir"
       /\ SelectedManifest(disc.root.entries[n]) # None
       /\ ~SelectedParses(disc.root.entries[n])
       /\ SelectedParses(disc.root.entries[m])
       /\ SkillsFrom(m) = disc.result

\* --------------------------------------------------- open-skills synchronizer
\* Times are whole days. A marker file: missing, there with a modification
\* time the file system does not give, or there with its modification time;
\* `ours` tells that a pass wrote it.
NoMarker == [kind |-> "missing", at |-> 0, ours |-> FALSE]
UnreadableMarker == [kind |-> "unreadable", at |-> 0, ours |-> FALSE]
MarkerAt(t) == [kind |-> "time", at |-> t, ours |-> FALSE]

\* The target directory: whether it exists, whether it holds .git, its marker
\* and the top-level entries it holds.
Repo(exists, git, marker, contents) ==
  [exists |-> exists, git |-> git, marker |-> marker, contents |-> contents]

\* str::to_ascii_lowercase on the words of the model
lower_word(word) ==
  IF word = "FALSE" THEN "false"
  ELSE IF word = "Off" THEN "off"
  ELSE IF word = "NO" THEN "no"
  ELSE IF word = "TRUE" THEN "true"
  ELSE IF word = "MD" THEN "md"
  ELSE IF word = "README" \/ word = "Readme" THEN "readme"
  ELSE word
to_ascii_lowercase(text) == [i \in 1..Len(text) |-> lower_word(text[i])]

\* mod.rs:369-377  open_skills_enabled
MutEnabledUntrimmed(toggle, test_mode) ==
  IF toggle.some
  THEN to_ascii_lowercase(toggle.val) \notin {<<"0">>, <<"false">>, <<"off">>, <<"no">>}
  ELSE ~test_mode

open_skills_enabled(toggle, test_mode) ==
  IF toggle.some
  THEN LET value == to_ascii_lowercase(trim_line(toggle.val))
       IN  value \notin {<<"0">>, <<"false">>, <<"off">>, <<"no">>}
  ELSE ~test_mode

\* mod.rs:379-388  resolve_open_skills_dir
resolve_open_skills_dir(dir_var, home) ==
  IF dir_var.some /\ trim_line(dir_var.val) # <<>> THEN Some(trim_line(dir_var.val))
  ELSE IF home THEN Some(<<"home", "open-skills">>)
  ELSE NoDirs

\* mod.rs:419-450  clone_open_skills_repo. The parent directory may not be
\* creatable; git may succeed, fail and leave nothing, or end (killed, out of
\* disk) with a partial directory left behind, with or without .git.
CloneOutcomes == {"mkdir_failed", "ok", "failed", "failed_partial", "failed_partial_git"}
clone_open_skills_repo(repo, upstream, outcome) ==
  IF outcome = "mkdir_failed" THEN [ok |-> FALSE, ran |-> FALSE, repo |-> repo]
  ELSE IF outcome = "ok"
    THEN [ok |-> TRUE, ran |-> TRUE, repo |-> Repo(TRUE, TRUE, NoMarker, upstream)]
  ELSE IF outcome = "failed" THEN [ok |-> FALSE, ran |-> TRUE, repo |-> repo]
  ELSE [ok |-> FALSE, ran |-> TRUE,
        repo |-> Repo(TRUE, outcome = "failed_partial_git", NoMarker, {})]

\* mod.rs:452-476  pull_open_skills_repo
PullOutcomes == {"ok", "failed"}
MutPullsWithoutGitDir(repo, upstream, outcome) ==
  IF outcome = "ok"
  THEN [ok |-> TRUE, ran |-> TRUE, repo |-> [repo EXCEPT !.contents = upstream]]
  ELSE [ok |-> FALSE, ran |-> TRUE, repo |-> repo]

pull_open_skills_repo(repo, upstream, outcome) ==
  IF ~repo.git THEN [ok |-> TRUE, ran |-> FALSE, repo |-> repo]
  ELSE IF outcome = "ok"
    THEN [ok |-> TRUE, ran |-> TRUE, repo |-> [repo EXCEPT !.contents = upstream]]
  ELSE [ok |-> FALSE, ran |-> TRUE, repo |-> repo]

\* mod.rs:478-491  should_sync_open_skills
MutSyncAfterInterval(repo, now) ==
  IF repo.marker.kind = "missing" THEN TRUE
  ELSE IF repo.marker.kind = "unreadable" THEN TRUE
  ELSE IF now < repo.marker.at THEN TRUE
  ELSE now - repo.marker.at > OPEN_SKILLS_SYNC_INTERVAL_DAYS

should_sync_open_skills(repo, now) ==
  IF repo.marker.kind = "missing" THEN TRUE
  ELSE IF repo.marker.kind = "unreadable" THEN TRUE
  ELSE IF now < repo.marker.at THEN TRUE
  ELSE now - repo.marker.at >= OPEN_SKILLS_SYNC_INTERVAL_DAYS

\* mod.rs:493-496  mark_open_skills_synced (the write goes through)
mark_open_skills_synced(repo, now) ==
  [repo EXCEPT !.marker = [kind |-> "time", at |-> now, ours |-> TRUE]]

\* What a pass did, for the claims: history, not program state.
PassRecord(enabled, resolved, existed, had_git, stale, clone_called, git_clone, pull_called, git_pull, marked, served, now, before, after) ==
  [enabled |-> enabled, resolved |-> resolved, existed |-> existed,
   had_git |-> had_git, stale |-> stale, clone_called |-> clone_called,
   git_clone |-> git_clone, pull_called |-> pull_called, git_pull |-> git_pull,
   marked |-> marked, served |-> served, now |-> now,
   before |-> before, after |-> after]
NoPass ==
  PassRecord(FALSE, FALSE, FALSE, FALSE, FALSE, FALSE, "none", FALSE, "none",
             FALSE, FALSE, 0, Repo(FALSE, FALSE, NoMarker, {}),
             Repo(FALSE, FALSE, NoMarker, {}))

\* What git did in a call: nothing, a run that succeeded, a run that failed.
GitRun(r) == IF ~r.ran THEN "none" ELSE IF r.ok THEN "ok" ELSE "failed"

\* mod.rs:397-403  the target directory does not exist
MutServesAfterFailedClone(repo, upstream, now, outcome) ==
  LET c == clone_open_skills_repo(repo, upstream, outcome)
  IN  IF ~c.ok
      THEN [served |-> TRUE, marked |-> FALSE, git |-> GitRun(c), repo |-> c.repo]
      ELSE [served |-> TRUE, marked |-> TRUE, git |-> GitRun(c),
            repo |-> mark_open_skills_synced(c.repo, now)]

clone_branch(repo, upstream, now, outcome) ==
  LET c == clone_open_skills_repo(repo, upstream, outcome)
  IN  IF ~c.ok
      THEN [served |-> FALSE, marked |-> FALSE, git |-> GitRun(c), repo |-> c.repo]
      ELSE [served |-> TRUE, marked |-> TRUE, git |-> GitRun(c),
            repo |-> mark_open_skills_synced(c.repo, now)]

\* mod.rs:405-416  the target directory exists and is stale
MutMarksAfterFailedPull(repo, upstream, now, outcome) ==
  LET q == pull_open_skills_repo(repo, upstream, outcome)
  IN  [served |-> TRUE, marked |-> TRUE, git |-> GitRun(q),
       repo |-> mark_open_skills_synced(q.repo, now)]

pull_branch(repo, upstream, now, outcome) ==
  LET q == pull_open_skills_repo(repo, upstream, outcome)
  IN  IF q.ok
      THEN [served |-> TRUE, marked |-> TRUE, git |-> GitRun(q),
            repo |-> mark_open_skills_synced(q.repo, now)]
      ELSE [served |-> TRUE, marked |-> FALSE, git |-> GitRun(q), repo |-> q.repo]

\* mod.rs:390-417  ensure_open_skills_repo, cloning over a directory without .git
MutClonesOverPartialDirectory(sy, clone_outcome, pull_outcome) ==
  LET repo == sy.repo
      enabled == open_skills_enabled(sy.toggle, sy.test_mode)
      repo_dir == resolve_open_skills_dir(sy.dir_var, sy.home)
      stale == should_sync_open_skills(repo, sy.now)
      c == clone_branch(repo, sy.upstream, sy.now, clone_outcome)
      q == pull_branch(repo, sy.upstream, sy.now, pull_outcome)
  IN  IF ~enabled
        THEN PassRecord(FALSE, FALSE, FALSE, FALSE, FALSE, FALSE, "none", FALSE,
                        "none", FALSE, FALSE, sy.now, repo, repo)
      ELSE IF ~repo_dir.some
        THEN PassRecord(TRUE, FALSE, FALSE, FALSE, FALSE, FALSE, "none", FALSE,
                        "none", FALSE, FALSE, sy.now, repo, repo)
      ELSE IF ~repo.exists \/ ~repo.git
        THEN PassRecord(TRUE, TRUE, repo.exists, FALSE, FALSE, TRUE, c.git, FALSE,
                        "none", c.marked, c.served, sy.now, repo, c.repo)
      ELSE IF stale
        THEN PassRecord(TRUE, TRUE, TRUE, repo.git, TRUE, FALSE, "none", TRUE,
                        q.git, q.marked, q.served, sy.now, repo, q.repo)
      ELSE PassRecord(TRUE, TRUE, TRUE, repo.git, FALSE, FALSE, "none", FALSE,
                      "none", FALSE, TRUE, sy.now, repo, repo)

\* mod.rs:390-417  ensure_open_skills_repo: the directory it returns (served),
\* the target directory afterwards and what the pass did.
ensure_open_skills_repo(sy, clone_outcome, pull_outcome) ==
  LET repo == sy.repo
      enabled == open_skills_enabled(sy.toggle, sy.test_mode)
      repo_dir == resolve_open_skills_dir(sy.dir_var, sy.home)
      stale == should_sync_open_skills(repo, sy.now)
      c == clone_branch(repo, sy.upstream, sy.now, clone_outcome)
      q == pull_branch(repo, sy.upstream, sy.now, pull_outcome)
  IN  IF ~enabled
        THEN PassRecord(FALSE, FALSE, FALSE, FALSE, FALSE, FALSE, "none", FALSE,
                        "none", FALSE, FALSE, sy.now, repo, repo)
      ELSE IF ~repo_dir.some
        THEN PassRecord(TRUE, FALSE, FALSE, FALSE, FALSE, FALSE, "none", FALSE,
                        "none", FALSE, FALSE, sy.now, repo, repo)
      ELSE IF ~repo.exists
        THEN PassRecord(TRUE, TRUE, FALSE, FALSE, FALSE, TRUE, c.git, FALSE,
                        "none", c.marked, c.served, sy.now, repo, c.repo)
      ELSE IF stale
        THEN PassRecord(TRUE, TRUE, TRUE, repo.git, TRUE, FALSE, "none", TRUE,
                        q.git, q.marked, q.served, sy.now, repo, q.repo)
      ELSE PassRecord(TRUE, TRUE, TRUE, repo.git, FALSE, FALSE, "none", FALSE,
                      "none", FALSE, TRUE, sy.now, repo, repo)

\* ------------------------------------------------ inputs of the synchronizer
Upstream == {"skill.md"}
Toggles ==
  {NoValue, Some(<<"0">>), Some(<<Blank, "FALSE", Blank>>), Some(<<"Off">>),
   Some(<<"NO">>), Some(<<"1">>), Some(<<"TRUE">>), Some(<<>>),
   Some(<<"no", "0">>), Some(<<"false", Blank, "0">>)}
DirVars == {NoValue, Some(<<Blank>>), Some(<<Blank, "/o", Blank>>)}
InitialMarkers ==
  {NoMarker, UnreadableMarker,
   MarkerAt(0 - OPEN_SKILLS_SYNC_INTERVAL_DAYS),
   MarkerAt(1 - OPEN_SKILLS_SYNC_INTERVAL_DAYS),
   MarkerAt(1)}
AbsentRepo == Repo(FALSE, FALSE, NoMarker, {})
InitialRepos ==
  {AbsentRepo} \cup {Repo(TRUE, g, k, Upstream) : g \in BOOLEAN, k \in InitialMarkers}
FewRepos ==
  {AbsentRepo,
   Repo(TRUE, TRUE, MarkerAt(0 - OPEN_SKILLS_SYNC_INTERVAL_DAYS), Upstream),
   Repo(TRUE, FALSE, MarkerAt(1 - OPEN_SKILLS_SYNC_INTERVAL_DAYS), Upstream)}
FewToggles == {NoValue, Some(<<"1">>), Some(<<Blank, "FALSE", Blank>>)}

SyncWorld(toggle, test_mode, dir_var, home, repo) ==
  [pc |-> "run", toggle |-> toggle, test_mode |-> test_mode, dir_var |-> dir_var,
   home |-> home, upstream |-> Upstream, repo |-> repo, now |-> 0, passes |-> 0,
   last |-> NoPass, prev |-> NoPass]
\* Every toggle on a few directories, every way to resolve the directory and
\* every directory on a few toggles.
SyncWorlds ==
  {SyncWorld(t, m, NoValue, TRUE, r) : t \in Toggles, m \in BOOLEAN, r \in FewRepos}
  \cup
  {SyncWorld(t, FALSE, d, h, r) :
     t \in FewToggles, d \in DirVars, h \in BOOLEAN, r \in FewRepos}
  \cup
  {SyncWorld(t, m, NoValue, TRUE, r) :
     t \in FewToggles, m \in BOOLEAN, r \in InitialRepos}

InitSync ==
  /\ sync \in SyncWorlds
  /\ env = [v \in Vars |-> Absent]
  /\ env0 = env
  /\ skills = <<>>
  /\ entries = [k \in Keys |-> NoEntry]
  /\ guard = [s \in Scopes |-> IdleGuard]
  /\ run = IdleRun
  /\ EligUnused
  /\ md = Unused /\ disc = Unused /\ rm = Unused /\ LateUnused

syncFrame == <<env, env0, skills, entries, guard, run, eligWorld, md, disc, rm, lateWorld>>

\* A discovery pass calls ensure_open_skills_repo; git does what it does (the
\* outcome of a command that cannot run in the pass is not drawn).
Pass ==
  /\ sync.pc = "run"
  /\ sync.passes < MaxPasses
  /\ \E co \in IF sync.repo.exists THEN {"ok"} ELSE CloneOutcomes,
        po \in IF sync.repo.exists /\ sync.repo.git THEN PullOutcomes ELSE {"ok"} :
       LET r == ensure_open_skills_repo(sync, co, po)
       IN  sync' = [sync EXCEPT !.repo = r.after, !.passes = @ + 1,
                                !.prev = sync.last, !.last = r]
  /\ UNCHANGED syncFrame

\* A day goes by.
Tick ==
  /\ sync.pc = "run"
  /\ sync.now < MaxClock
  /\ sync' = [sync EXCEPT !.now = @ + 1]
  /\ UNCHANGED syncFrame

NextSync == Pass \/ Tick

SpecSync == InitSync /\ [][NextSync]_vars

\* ------------------------------------------------ claims on the synchronizer
\* A pass has been made; two passes have been made.
Passed == sync.pc = "run" /\ sync.passes >= 1
PassedTwice == sync.pc = "run" /\ sync.passes >= 2

\* The toggle disables synchronization: a falsy word once trimmed and
\* case-folded, or no value in test mode.
ToggleDisables ==
  IF sync.toggle.some
  THEN \E pad1, pad2 \in {<<>>, <<Blank>>},
          word \in {"0", "false", "FALSE", "off", "Off", "no", "NO"} :
         sync.toggle.val = pad1 \o <<word>> \o pad2
  ELSE sync.test_mode

\* C14: when the toggle disables synchronization a pass attempts no clone and
\* no pull, writes no marker and serves no remote directory, whatever the
\* target directory is; every other set value of the toggle enables it.
C14_DisabledDoesNothing ==
  Passed =>
    /\ ToggleDisables =>
         /\ ~sync.last.enabled
         /\ ~sync.last.clone_called /\ sync.last.git_clone = "none"
         /\ ~sync.last.pull_called /\ sync.last.git_pull = "none"
         /\ ~sync.last.marked /\ ~sync.last.served
         /\ sync.last.after = sync.last.before
    /\ (sync.toggle.some /\ ~ToggleDisables) => sync.last.enabled

\* A pass with the toggle " FALSE " on a stale version-controlled directory
\* did nothing.
C14_Witness ==
  /\ Passed
  /\ sync.toggle = Some(<<Blank, "FALSE", Blank>>)
  /\ sync.last.before.exists /\ sync.last.before.git
  /\ sync.last.before.marker.kind = "missing"
  /\ ~sync.last.served /\ sync.last.git_pull = "none"

\* The pass found synchronization enabled and a target directory to look at.
Synchronizing(pass) == pass.enabled /\ pass.resolved

\* The marker a pass left is the one written on its day.
FreshMarker(pass) ==
  pass.after.marker.kind = "time" /\ pass.after.marker.at = pass.now

\* What a pass does on an absent target directory: one call of
\* clone_open_skills_repo; after a clone that succeeded the marker is written
\* and the directory served, after one that failed neither.
CloneOnAbsent(pass) ==
  (Synchronizing(pass) /\ ~pass.before.exists) =>
    /\ pass.clone_called /\ ~pass.pull_called /\ pass.git_pull = "none"
    /\ pass.git_clone = "ok" =>
         /\ pass.marked /\ FreshMarker(pass) /\ pass.served
         /\ pass.after.exists
    /\ pass.git_clone # "ok" =>
         /\ ~pass.marked /\ pass.after.marker = pass.before.marker
         /\ ~pass.served

\* The earlier of two passes found the directory absent and its clone failed.
CloneFailedBefore ==
  /\ PassedTwice
  /\ Synchronizing(sync.prev) /\ ~sync.prev.before.exists
  /\ sync.prev.git_clone # "ok"

\* C15 as claimed: on an absent directory a pass attempts one clone, marks and
\* serves after success, does neither after failure, and after a failure the
\* next pass attempts the clone again.
C15_Original ==
  /\ Passed => CloneOnAbsent(sync.last)
  /\ CloneFailedBefore => sync.last.clone_called

\* C15: on an absent directory a pass makes one clone attempt (git is not run
\* when the parent directory cannot be created), marks and serves after
\* success and does neither after failure; after a failure the next pass
\* attempts the clone again exactly when the failed attempt left no directory
\* behind.
C15_CloneOnAbsentDirectory ==
  /\ Passed => CloneOnAbsent(sync.last)
  /\ CloneFailedBefore => (sync.last.clone_called <=> ~sync.prev.after.exists)

\* A clone failed and left nothing, and the next pass cloned with success.
C15_Witness ==
  /\ CloneFailedBefore
  /\ sync.prev.git_clone = "failed" /\ ~sync.prev.after.exists
  /\ sync.last.clone_called /\ sync.last.git_clone = "ok"
  /\ sync.last.served /\ FreshMarker(sync.last)

\* Stale, by the marker and the day: marker missing, time unreadable or in the
\* future, or seven days old.
IsStale(marker, now) ==
  \/ marker.kind = "missing"
  \/ marker.kind = "unreadable"
  \/ marker.kind = "time" /\ marker.at > now
  \/ marker.kind = "time" /\ now - marker.at >= 7

\* The pass found an existing version-controlled directory stale.
StaleGitDirectory(pass) ==
  /\ Synchronizing(pass)
  /\ pass.before.exists /\ pass.before.git
  /\ IsStale(pass.before.marker, pass.now)

\* What a pass does on an existing, stale, version-controlled directory: it
\* runs a pull; after success the marker is refreshed; after failure the marker
\* is as it was and the directory is served all the same.
PullOnStale(pass) ==
  StaleGitDirectory(pass) =>
    /\ pass.git_pull # "none" /\ ~pass.clone_called
    /\ pass.git_pull = "ok" => (pass.marked /\ FreshMarker(pass))
    /\ pass.git_pull = "failed" =>
         /\ ~pass.marked
         /\ pass.after.marker = pass.before.marker
         /\ pass.served

\* The marker's time lies after the day of the pass.
FutureMarker(pass) ==
  pass.before.marker.kind = "time" /\ pass.before.marker.at > pass.now

\* C16 as claimed: a pass on such a directory pulls, refreshes the marker after
\* success and after failure leaves it, serves the directory, and the
\* directory stays stale so that the next pass pulls again.
C16_Original ==
  /\ Passed => PullOnStale(sync.last)
  /\ (Passed /\ StaleGitDirectory(sync.last) /\ sync.last.git_pull = "failed") =>
       IsStale(sync.repo.marker, sync.now)
  /\ (PassedTwice /\ StaleGitDirectory(sync.prev) /\ sync.prev.git_pull = "failed") =>
       (StaleGitDirectory(sync.last) /\ sync.last.git_pull # "none")

\* C16: a pass on an existing, stale, version-controlled directory pulls,
\* refreshes the marker after success and after failure leaves it and serves
\* the directory; unless the marker's time lay in the future the directory
\* stays stale and the next pass pulls again.
C16_PullOnStaleDirectory ==
  /\ Passed => PullOnStale(sync.last)
  /\ (Passed /\ StaleGitDirectory(sync.last) /\ sync.last.git_pull = "failed"
        /\ ~FutureMarker(sync.last)) =>
       IsStale(sync.repo.marker, sync.now)
  /\ (PassedTwice /\ StaleGitDirectory(sync.prev) /\ sync.prev.git_pull = "failed"
        /\ ~FutureMarker(sync.prev)) =>
       (StaleGitDirectory(sync.last) /\ sync.last.git_pull # "none")

\* A pull failed on a directory with a seven days old marker and, a day later,
\* the next pass pulled again with success.
C16_Witness ==
  /\ PassedTwice
  /\ StaleGitDirectory(sync.prev) /\ sync.prev.git_pull = "failed"
  /\ sync.prev.before.marker.kind = "time"
  /\ sync.last.now > sync.prev.now
  /\ sync.last.git_pull = "ok" /\ FreshMarker(sync.last)

\* C17 as claimed: on an existing directory a pass attempts a pull iff the
\* directory is stale; after a pass that refreshed the marker no pass within
\* seven days attempts a pull.
C17_Original ==
  /\ (Passed /\ Synchronizing(sync.last) /\ sync.last.before.exists) =>
       (sync.last.git_pull # "none" <=> IsStale(sync.last.before.marker, sync.last.now))
  /\ (PassedTwice /\ sync.prev.marked /\ sync.last.now - sync.prev.now < 7) =>
       sync.last.git_pull = "none"

\* C17: on an existing directory a pass takes the pull step iff the directory
\* is stale, and the step runs git pull iff the directory holds .git; after a
\* pass that refreshed the marker no pass within seven days takes the step.
C17_PullIffStale ==
  /\ (Passed /\ Synchronizing(sync.last) /\ sync.last.before.exists) =>
       /\ sync.last.pull_called <=> IsStale(sync.last.before.marker, sync.last.now)
       /\ sync.last.git_pull # "none" <=>
            (sync.last.before.git /\ IsStale(sync.last.before.marker, sync.last.now))
  /\ (PassedTwice /\ sync.prev.marked /\ sync.last.now - sync.prev.now < 7) =>
       (~sync.last.pull_called /\ sync.last.git_pull = "none")

\* A pass refreshed the marker by a pull, a pass six days later did not pull,
\* and on the seventh day the directory is stale again.
C17_Witness ==
  /\ PassedTwice
  /\ sync.prev.git_pull = "ok" /\ sync.prev.marked
  /\ sync.last.now - sync.prev.now = 6
  /\ ~sync.last.pull_called /\ sync.last.served
  /\ sync.now - sync.prev.now = 7
  /\ IsStale(sync.repo.marker, sync.now)

\* C18: on a target directory without .git no pass runs git pull, stale marker
\* or not, and every pass that synchronizes serves the directory.
C18_NoPullWithoutGit ==
  (Passed /\ sync.last.before.exists /\ ~sync.last.before.git) =>
    /\ sync.last.git_pull = "none" /\ sync.last.git_clone = "none"
    /\ ~sync.last.after.git
    /\ Synchronizing(sync.last) => sync.last.served

\* Two passes on a directory without .git: the first found it stale, neither
\* ran git and both served it.
C18_Witness ==
  /\ PassedTwice
  /\ sync.prev.before.exists /\ ~sync.prev.before.git
  /\ sync.prev.stale /\ sync.prev.pull_called
  /\ sync.prev.git_pull = "none" /\ sync.last.git_pull = "none"
  /\ sync.prev.served /\ sync.last.served

\* The pass before the last ended a clone in failure with a directory left
\* behind that holds no .git.
PartialDirectoryLeft ==
  /\ PassedTwice
  /\ sync.prev.clone_called /\ sync.prev.git_clone = "failed"
  /\ sync.prev.after.exists /\ ~sync.prev.after.git

\* C23: a pass calls the clone only when it finds no target directory; a pass
\* that finds a directory without .git (one a failed clone left behind as well)
\* runs neither git clone nor git pull, leaves the directory without .git for
\* the passes after it, and serves it when it synchronizes, as every pass
\* after a clone attempt does.
C23_NoCloneOnceDirectoryExists ==
  Passed =>
    /\ sync.last.clone_called => ~sync.last.before.exists
    /\ (sync.last.before.exists /\ ~sync.last.before.git) =>
         /\ ~sync.last.clone_called
         /\ sync.last.git_clone = "none" /\ sync.last.git_pull = "none"
         /\ sync.last.after.exists /\ ~sync.last.after.git
         /\ sync.repo = sync.last.after
         /\ Synchronizing(sync.last) => sync.last.served
    /\ PartialDirectoryLeft =>
         /\ sync.last.before = sync.prev.after
         /\ sync.last.served

\* A clone failed and left a directory without .git; the next pass found it,
\* ran no git and served it.
C23_Witness ==
  /\ PartialDirectoryLeft
  /\ sync.last.existed /\ ~sync.last.had_git
  /\ ~sync.last.clone_called
  /\ sync.last.git_clone = "none" /\ sync.last.git_pull = "none"
  /\ sync.last.served

\* ------------------------------------------------------------ load_skills
\* A top-level entry of the open-skills directory: its file stem and extension
\* (None without one), whether it is a regular file, and the file.
RepoEntry(stem, ext, is_file, file) ==
  [stem |-> stem, ext |-> ext, is_file |-> is_file, file |-> file]
FileName(entry) ==
  IF entry.ext = None THEN entry.stem ELSE entry.stem \o "." \o entry.ext

\* mod.rs:669-692  load_open_skill_md
load_open_skill_md(path, entry) ==
  IF entry.file.kind # "text" THEN LoadFailed
  ELSE Loaded(LoadedSkill(entry.stem, extract_description(entry.file.lines),
                          entry.stem, "open-skills", TRUE, <<>>, path))

\* mod.rs:339-364  one entry of the open-skills directory
visit_open_entry(found, repo_dir, entry) ==
  LET path == Append(repo_dir, FileName(entry))
      is_markdown == entry.ext # None /\ lower_word(entry.ext) = "md"
      is_readme == /\ entry.ext # None
                   /\ lower_word(entry.stem) = "readme"
                   /\ lower_word(entry.ext) = "md"
      loaded == load_open_skill_md(path, entry)
  IN  IF ~entry.is_file THEN found
      ELSE IF ~is_markdown THEN found
      ELSE IF is_readme THEN found
      ELSE IF loaded.ok THEN Append(found, loaded.skill)
      ELSE found

\* mod.rs:332-367  load_open_skills, in the order read_dir yields
RECURSIVE load_open_skills(_, _, _, _)
load_open_skills(found, repo_dir, order, i) ==
  IF i > Len(order) THEN found
  ELSE load_open_skills(visit_open_entry(found, repo_dir, order[i]),
                        repo_dir, order, i + 1)

\* The orders in which read_dir can yield a set of entries.
OrdersOf(set) ==
  {q \in [1..Cardinality(set) -> set] : \A i, j \in 1..Len(q) : q[i] = q[j] => i = j}

\* mod.rs:179-188  load_skills, after ensure_open_skills_repo made the pass
MutLoadSkillsDropsShadowed(pass, repo_dir, remote_order, workspace_dir, root, order, w) ==
  LET remote == IF pass.served
                THEN load_open_skills(<<>>, repo_dir, remote_order, 1) ELSE <<>>
      NotShadowed(skill) ==
        \A i \in 1..Len(remote) : remote[i].skill_key # skill.skill_key
  IN  remote \o SelectSeq(load_workspace_skills(workspace_dir, root, order, w),
                          NotShadowed)

load_skills(pass, repo_dir, remote_order, workspace_dir, root, order, w) ==
  LET remote == IF pass.served
                THEN load_open_skills(<<>>, repo_dir, remote_order, 1) ELSE <<>>
  IN  remote \o load_workspace_skills(workspace_dir, root, order, w)

\* The files of the model's open-skills directories.
SkillDoc == MdFile(<< <<Hash, Blank, "Title">>, <<"remote", Blank, "skill">> >>)
RemoteEntries ==
  {RepoEntry("skill1", "md", TRUE, SkillDoc),
   RepoEntry("two", "MD", TRUE, SkillDoc),
   RepoEntry("Readme", "MD", TRUE, SkillDoc),
   RepoEntry("notes", "txt", TRUE, SkillDoc),
   RepoEntry("LICENSE", None, TRUE, SkillDoc),
   RepoEntry("dir", "md", FALSE, NoFile),
   RepoEntry("binary", "md", TRUE, UnreadableFile)}
RemoteContents == {c \in SUBSET RemoteEntries : Cardinality(c) <= MaxEntries}
FewContents ==
  {{}, {RepoEntry("skill1", "md", TRUE, SkillDoc)},
   {RepoEntry("skill1", "md", TRUE, SkillDoc), RepoEntry("Readme", "MD", TRUE, SkillDoc)}}
UpstreamContents ==
  {RepoEntry("skill1", "md", TRUE, SkillDoc), RepoEntry("two", "MD", TRUE, SkillDoc)}

\* The workspaces of the model: directories with one manifest each.
FewDirEntries ==
  {NoDirEntry,
   SkillDir(NoFile, MdFile(<< <<"local", Blank, "skill">> >>)),
   SkillDir(TomlFile(Manifest("skill1", <<"from", Blank, "toml">>, None,
                              NoGating, NoGating)), NoFile),
   SkillDir(TomlFile(NoManifest), MdFile(<< <<"local", Blank, "skill">> >>))}
LoadRoots == {NoRoot} \cup {Root("dir", ents) : ents \in [EntryNames -> FewDirEntries]}
FewRoots ==
  {NoRoot,
   Root("dir", [n \in EntryNames |-> SkillDir(NoFile, MdFile(<< <<"local", Blank, "skill">> >>))])}

\* The target directories the six outcomes need, with the contents c.
LoadRepos(c) ==
  {AbsentRepo, Repo(TRUE, TRUE, NoMarker, c), Repo(TRUE, TRUE, MarkerAt(0), c),
   Repo(TRUE, FALSE, NoMarker, c)}
LoadWorlds ==
  {[SyncWorld(t, FALSE, NoValue, TRUE, r) EXCEPT !.upstream = UpstreamContents] :
     t \in {Some(<<"1">>), Some(<<"off">>)},
     r \in UNION {LoadRepos(c) : c \in RemoteContents}}
FewLoadWorlds ==
  {[SyncWorld(t, FALSE, NoValue, TRUE, r) EXCEPT !.upstream = UpstreamContents] :
     t \in {Some(<<"1">>), Some(<<"off">>)},
     r \in UNION {LoadRepos(c) : c \in FewContents}}

InitLoad ==
  /\ \/ sync \in LoadWorlds /\ \E root \in FewRoots : disc = NoDiscovery(root)
     \/ sync \in FewLoadWorlds /\ \E root \in LoadRoots : disc = NoDiscovery(root)
  /\ env = [v \in Vars |-> Absent]
  /\ env0 = env
  /\ skills = <<>>
  /\ entries = [k \in Keys |-> NoEntry]
  /\ guard = [s \in Scopes |-> IdleGuard]
  /\ run = IdleRun
  /\ EligUnused
  /\ md = Unused /\ rm = Unused /\ LateUnused

\* A call of load_skills: the synchronization pass, the open-skills directory
\* as the pass left it, then the workspace.
LoadSkills ==
  /\ sync.pc = "run" /\ disc.pc = "call"
  /\ \E co \in IF sync.repo.exists THEN {"ok"} ELSE CloneOutcomes,
        po \in IF sync.repo.exists /\ sync.repo.git THEN PullOutcomes ELSE {"ok"} :
       LET pass == ensure_open_skills_repo(sync, co, po)
           repo_dir == resolve_open_skills_dir(sync.dir_var, sync.home).val
       IN  \E remote_order \in OrdersOf(pass.after.contents),
              order \in ReadDirOrders(disc.root) :
             /\ sync' = [sync EXCEPT !.pc = "loaded", !.repo = pass.after,
                                     !.passes = @ + 1, !.prev = sync.last,
                                     !.last = pass]
             /\ disc' = [disc EXCEPT !.pc = "done",
                           !.result = load_workspace_skills(WorkspaceDir, disc.root,
                                                            order, Host)]
             /\ skills' = load_skills(pass, repo_dir, remote_order, WorkspaceDir,
                                      disc.root, order, Host)
  /\ UNCHANGED <<env, env0, entries, guard, run, eligWorld, md, rm, lateWorld>>

NextLoad == LoadSkills

SpecLoad == InitLoad /\ [][NextLoad]_vars

\* ------------------------------------------------- claims on load_skills
LoadReturned == sync.pc = "loaded"

\* How the synchronization of the call ended.
SyncOutcome ==
  IF ~sync.last.enabled THEN "disabled"
  ELSE IF sync.last.clone_called
    THEN IF sync.last.git_clone = "ok" THEN "clone succeeded" ELSE "clone failed"
  ELSE IF sync.last.git_pull = "ok" THEN "pull succeeded"
  ELSE IF sync.last.git_pull = "failed" THEN "pull failed"
  ELSE IF sync.last.pull_called THEN "nothing to pull"
  ELSE "not stale"

\* The paths of the files of the open-skills directory that make a skill:
\* readable regular files named *.md, whatever the case, but README.md.
RemoteSkillFiles ==
  {Append(<<"home", "open-skills">>, FileName(e)) :
     e \in {f \in sync.repo.contents :
              /\ f.is_file
              /\ f.ext \in {"md", "MD"}
              /\ f.stem \notin {"README", "Readme", "readme"}
              /\ f.file.kind = "text"}}

\* C19: however the synchronization ended, load_skills returns the remote
\* skills (none when no directory is served) followed by all workspace skills,
\* keeping workspace skills whose key is also a remote skill's key.
C19_RemoteThenWorkspace ==
  LoadReturned =>
    LET k == Len(skills) - Len(disc.result)
        remote == IF sync.last.served THEN RemoteSkillFiles ELSE {}
        yielding == IF disc.root.kind = "dir"
                    THEN {n \in EntryNames : SelectedParses(disc.root.entries[n])}
                    ELSE {}
    IN  /\ k = Cardinality(remote)
        /\ {skills[i].location : i \in 1..k} = remote
        /\ \A i \in 1..k : skills[i].version = "open-skills"
        /\ SubSeq(skills, k + 1, Len(skills)) = disc.result
        /\ Len(disc.result) = Cardinality(yielding)
        /\ sync.last.served <=>
             SyncOutcome \in {"clone succeeded", "pull succeeded", "pull failed",
                              "nothing to pull", "not stale"}

\* After a failed pull the stale copy's skill skill1 came first and the
\* workspace skill of the same key was kept behind it.
C19_Witness ==
  /\ LoadReturned
  /\ SyncOutcome = "pull failed"
  /\ Len(skills) >= 2
  /\ skills[1].version = "open-skills" /\ skills[1].skill_key = "skill1"
  /\ \E i \in 2..Len(skills) :
       skills[i].skill_key = "skill1" /\ skills[i].version = "0.1.0"

\* Each way the synchronization can end happens with a load.
C19_OutcomeSeen(outcome) == LoadReturned /\ SyncOutcome = outcome

\* ------------------------------------------------------- skills remove
\* The file system the Remove command works on: the nodes at the absolute
\* paths of the model. A path is the sequence of its components; a node below
\* a path that is no directory is absent.
FsAbsent == [kind |-> "absent", target |-> <<>>]
FsDir == [kind |-> "dir", target |-> <<>>]
FsFile == [kind |-> "file", target |-> <<>>]
FsLink(target) == [kind |-> "link", target |-> target]

HomeDir == <<"home">>
OutsideDir == Append(WorkspaceDir, "outside")
VictimDir == Append(OutsideDir, "victim")
SkillsRoot == Append(WorkspaceDir, "skills")
SkillA == Append(SkillsRoot, "a")
SkillB == Append(SkillsRoot, "b")
FsPaths == {HomeDir, WorkspaceDir, SkillsRoot, SkillA, SkillB, OutsideDir, VictimDir}

NodeAt(fs, path) ==
  IF path = <<>> THEN FsDir
  ELSE IF path \in DOMAIN fs THEN fs[path] ELSE FsAbsent

\* Path::starts_with: a prefix of whole components
path_starts_with(path, base) ==
  Len(base) <= Len(path) /\ SubSeq(path, 1, Len(base)) = base

\* A name as the command line gives it: a sequence of tokens, each a
\* separator ("/", "\"), a dot, or a word holding none of them.
Slash == "/"
Backslash == "\\"
Dot == "."

\* str::contains("..") and str::contains(char)
contains_dotdot(name) ==
  \E i \in 1..(Len(name) - 1) : name[i] = Dot /\ name[i + 1] = Dot
contains_char(name, char) == \E i \in 1..Len(name) : name[i] = char

\* The text of a run of tokens.
RECURSIVE concat(_)
concat(tokens) ==
  IF tokens = <<>> THEN "" ELSE Head(tokens) \o concat(Tail(tokens))

\* Path::components of a name: the texts between the "/" of the name
\* (the build modelled is the unix one, where "\" is no separator).
RECURSIVE split_slash(_, _, _)
split_slash(name, i, piece) ==
  IF i > Len(name) THEN <<concat(piece)>>
  ELSE IF name[i] = Slash
    THEN <<concat(piece)>> \o split_slash(name, i + 1, <<>>)
  ELSE split_slash(name, i + 1, Append(piece, name[i]))

\* mod.rs:739-742  skills_dir
skills_dir(workspace_dir) == Append(workspace_dir, "skills")

\* PathBuf::join: an absolute name replaces the base
path_join(base, name) ==
  IF name # <<>> /\ name[1] = Slash THEN split_slash(name, 1, <<>>)
  ELSE base \o split_slash(name, 1, <<>>)

\* fs::canonicalize: every component resolved, links followed; Err when a
\* component is missing, lies below a file, or the links do not end.
CanonErr == [ok |-> FALSE, path |-> <<>>]
RECURSIVE realpath(_, _, _, _)
realpath(fs, cur, rest, fuel) ==
  IF rest = <<>> THEN [ok |-> TRUE, path |-> cur]
  ELSE LET c == Head(rest)
           t == Tail(rest)
           next == Append(cur, c)
           node == NodeAt(fs, next)
       IN  IF c = "" \/ c = "." THEN realpath(fs, cur, t, fuel)
           ELSE IF c = ".."
             THEN realpath(fs, IF cur = <<>> THEN <<>>
                               ELSE SubSeq(cur, 1, Len(cur) - 1), t, fuel)
           ELSE IF node.kind = "absent" THEN CanonErr
           ELSE IF node.kind = "link"
             THEN IF fuel = 0 THEN CanonErr
                  ELSE realpath(fs, <<>>, node.target \o t, fuel - 1)
           ELSE IF node.kind = "file" /\ t # <<>> THEN CanonErr
           ELSE realpath(fs, next, t, fuel)
canonicalize(fs, path) == realpath(fs, <<>>, path, Cardinality(DOMAIN fs))

\* Path::exists: the path resolves, links followed
path_exists(fs, path) == canonicalize(fs, path).ok

\* The nodes at and below a path are gone.
remove_tree(fs, path) ==
  [q \in DOMAIN fs |-> IF path_starts_with(q, path) THEN FsAbsent ELSE fs[q]]
remove_children(fs, path) ==
  [q \in DOMAIN fs |->
     IF path_starts_with(q, path) /\ q # path THEN FsAbsent ELSE fs[q]]

\* fs::remove_dir_all (unix): a link is unlinked and not followed, a file is
\* no directory, a directory goes with all below it. A path that ends in "."
\* or ".." loses what is below it and then fails, rmdir refusing such a path;
\* a path that ends in "/" names the directory before the "/".
remove_dir_all(fs, path) ==
  LET last == path[Len(path)]
      parent == canonicalize(fs, SubSeq(path, 1, Len(path) - 1))
      whole == canonicalize(fs, path)
      at == Append(parent.path, last)
      node == NodeAt(fs, at)
  IN  IF last = ""
        THEN IF ~whole.ok \/ NodeAt(fs, whole.path).kind # "dir"
             THEN [ok |-> FALSE, fs |-> fs]
             ELSE [ok |-> TRUE, fs |-> remove_tree(fs, whole.path)]
      ELSE IF last = "." \/ last = ".."
        THEN IF ~whole.ok \/ NodeAt(fs, whole.path).kind # "dir"
             THEN [ok |-> FALSE, fs |-> fs]
             ELSE [ok |-> FALSE, fs |-> remove_children(fs, whole.path)]
      ELSE IF ~parent.ok \/ node.kind = "absent" \/ node.kind = "file"
        THEN [ok |-> FALSE, fs |-> fs]
      ELSE IF node.kind = "link"
        THEN [ok |-> TRUE, fs |-> [fs EXCEPT ![at] = FsAbsent]]
      ELSE [ok |-> TRUE, fs |-> remove_tree(fs, at)]

\* What the command returns, and the file system it leaves.
Bail(message, fs) == [ok |-> FALSE, error |-> message, fs |-> fs]

\* mod.rs:987-1016  SkillCommands::Remove
MutRemoveWithoutEscapeCheck(workspace_dir, name, fs) ==
  LET skill_path == path_join(skills_dir(workspace_dir), name)
      removed == remove_dir_all(fs, skill_path)
  IN  IF contains_dotdot(name) \/ contains_char(name, Slash)
         \/ contains_char(name, Backslash)
        THEN Bail("Invalid skill name", fs)
      ELSE IF ~path_exists(fs, skill_path) THEN Bail("Skill not found", fs)
      ELSE IF ~removed.ok THEN Bail("io", removed.fs)
      ELSE [ok |-> TRUE, error |-> "", fs |-> removed.fs]

remove_skill(workspace_dir, name, fs) ==
  LET skill_path == path_join(skills_dir(workspace_dir), name)
      resolved == canonicalize(fs, skills_dir(workspace_dir))
      canonical_skills == IF resolved.ok THEN resolved.path
                          ELSE skills_dir(workspace_dir)
      canonical_skill == canonicalize(fs, skill_path)
      removed == remove_dir_all(fs, skill_path)
  IN  IF contains_dotdot(name) \/ contains_char(name, Slash)
         \/ contains_char(name, Backslash)
        THEN Bail("Invalid skill name", fs)
      ELSE IF canonical_skill.ok
              /\ ~path_starts_with(canonical_skill.path, canonical_skills)
        THEN Bail("Skill path escapes skills directory", fs)
      ELSE IF ~path_exists(fs, skill_path) THEN Bail("Skill not found", fs)
      ELSE IF ~removed.ok THEN Bail("io", removed.fs)
      ELSE [ok |-> TRUE, error |-> "", fs |-> removed.fs]

\* The names given to the command.
RemoveNames ==
  {<<"a">>, <<"b">>, <<"c">>, <<>>, <<Dot>>, <<"a", Dot, "b">>,
   <<Dot, Dot>>, <<"a", Dot, Dot, "b">>, <<"a", Dot, Dot>>,
   <<Dot, Dot, Slash, "outside">>, <<Slash, "home">>,
   <<"a", Slash, Dot, Dot, Slash, "b">>, <<"a", Slash>>, <<Dot, Slash, "a">>,
   <<Backslash, "a">>, <<"a", Backslash, "b">>, <<Dot, Dot, Backslash, "a">>}

\* The entries of the skills root: a directory, a file, a link to another
\* skill, to the root, out of the root, to nothing, to itself.
NodesA ==
  {FsAbsent, FsDir, FsFile, FsLink(SkillB), FsLink(SkillsRoot),
   FsLink(OutsideDir), FsLink(VictimDir), FsLink(WorkspaceDir),
   FsLink(<<"gone">>), FsLink(SkillA)}
NodesB == {FsAbsent, FsDir, FsLink(VictimDir)}
FileSystem(root, a, b) ==
  [q \in FsPaths |->
     IF q = SkillsRoot THEN root
     ELSE IF q = SkillA THEN a
     ELSE IF q = SkillB THEN b
     ELSE FsDir]
FileSystems ==
  {FileSystem(FsDir, a, b) : a \in NodesA, b \in NodesB}
  \cup {FileSystem(FsAbsent, FsAbsent, FsAbsent)}

NoRemoval(fs) == [ok |-> TRUE, error |-> "", fs |-> fs]

InitRemove ==
  /\ \E fs \in FileSystems :
       rm = [pc |-> "ready", fs |-> fs, before |-> fs, name |-> <<>>,
             calls |-> 0, returned |-> NoRemoval(fs)]
  /\ env = [v \in Vars |-> Absent]
  /\ env0 = env
  /\ skills = <<>>
  /\ entries = [k \in Keys |-> NoEntry]
  /\ guard = [s \in Scopes |-> IdleGuard]
  /\ run = IdleRun
  /\ EligUnused
  /\ md = Unused /\ disc = Unused /\ sync = Unused /\ LateUnused

\* One run of `skills remove <name>`.
Remove ==
  /\ rm.pc # "unused" /\ rm.calls < MaxRemovals
  /\ \E name \in RemoveNames :
       LET returned == remove_skill(WorkspaceDir, name, rm.fs)
       IN  rm' = [pc |-> "returned", fs |-> returned.fs, before |-> rm.fs,
                  name |-> name, calls |-> rm.calls + 1, returned |-> returned]
  /\ UNCHANGED <<env, env0, skills, entries, guard, run, eligWorld, md, disc, sync, lateWorld>>

NextRemove == Remove

SpecRemove == InitRemove /\ [][NextRemove]_vars

\* --------------------------------------------------- claims on removal
Removed == rm.pc = "returned"

\* The name holds "..", "/" or "\".
RejectedName ==
  \/ \E i \in 1..(Len(rm.name) - 1) : rm.name[i] = "." /\ rm.name[i + 1] = "."
  \/ \E i \in 1..Len(rm.name) : rm.name[i] \in {"/", "\\"}

\* The target path resolved, in the file system the command found, to a
\* location that is neither the skills root nor below it.
ResolvesOutside ==
  LET target == canonicalize(rm.before, path_join(SkillsRoot, rm.name))
      root == canonicalize(rm.before, SkillsRoot)
  IN  /\ target.ok
      /\ ~path_starts_with(target.path, IF root.ok THEN root.path ELSE SkillsRoot)

\* C20: a removal whose name holds "..", "/" or "\" returns the rejection of
\* the name whatever the file system holds, a removal whose target resolves
\* out of the skills root returns a rejection too, and both leave the file
\* system as it was.
C20_RejectedWithoutChange ==
  Removed =>
    /\ RejectedName =>
         /\ ~rm.returned.ok /\ rm.returned.error = "Invalid skill name"
         /\ rm.fs = rm.before
    /\ ResolvesOutside =>
         /\ ~rm.returned.ok
         /\ rm.returned.error \in {"Invalid skill name",
                                   "Skill path escapes skills directory"}
         /\ rm.fs = rm.before

\* The skill "a" is a link to a directory out of the root: the name passes
\* the name check, the target resolves outside, and the removal was rejected.
C20_Witness ==
  /\ Removed
  /\ rm.name = <<"a">>
  /\ rm.before[SkillA] = FsLink(VictimDir)
  /\ ~RejectedName /\ ResolvesOutside
  /\ rm.returned.error = "Skill path escapes skills directory"

\* A name with ".." that would resolve inside the root is rejected as well.
C20_WitnessName ==
  /\ Removed
  /\ rm.name = <<"a", Slash, Dot, Dot, Slash, "b">>
  /\ rm.before[SkillA] = FsDir /\ rm.before[SkillB] = FsDir
  /\ rm.returned.error = "Invalid skill name"

\* The nodes the removal changed.
Changed == {q \in FsPaths : rm.fs[q] # rm.before[q]}

\* The entry of the skills root the name stands for, when the name is one
\* component.
NamedEntry == Append(SkillsRoot, concat(rm.name))

\* C26: a removal changes nothing but the entry of the skills root that the
\* name names and what is below it: never the skills root itself, never the
\* entry of another skill.
C26_Original ==
  Removed =>
    \A q \in Changed :
      /\ q # SkillsRoot
      /\ path_starts_with(q, NamedEntry)

\* The empty name passed both checks: the command returned Ok and the skills
\* root is gone with the two skills in it.
C26_RootDeleted ==
  /\ Removed
  /\ rm.name = <<>>
  /\ rm.returned.ok
  /\ rm.before[SkillsRoot] = FsDir /\ rm.before[SkillA] = FsDir /\ rm.before[SkillB] = FsDir
  /\ rm.fs[SkillsRoot] = FsAbsent /\ rm.fs[SkillA] = FsAbsent /\ rm.fs[SkillB] = FsAbsent

\* The name "." passed both checks: the skills in the root are gone.
C26_RootEmptied ==
  /\ Removed
  /\ rm.name = <<Dot>>
  /\ rm.before[SkillA] = FsDir /\ rm.before[SkillB] = FsDir
  /\ rm.fs[SkillA] = FsAbsent /\ rm.fs[SkillB] = FsAbsent

\* Names of one component other than "." are safe: the removal changes only
\* the named entry.
C26_OneComponentNamesSafe ==
  (Removed /\ rm.name \notin {<<>>, <<Dot>>}) =>
    \A q \in Changed : q # SkillsRoot /\ path_starts_with(q, NamedEntry)

\* ------------------------------------------------------- skills install
\* The source given to `skills install`: a URL, an absolute path, or a path
\* relative to the working directory of the process.
UrlSource(repo) == [kind |-> "url", path |-> <<repo>>]
AbsSource(path) == [kind |-> "abs", path |-> path]
RelSource(path) == [kind |-> "rel", path |-> path]
Cwd == OutsideDir

SourceA == Append(OutsideDir, "a")
NestedA == Append(SkillB, "a")
SkillRepo == Append(SkillsRoot, "repo")
InstallPaths ==
  {HomeDir, WorkspaceDir, SkillsRoot, SkillA, SkillB, SkillRepo, OutsideDir,
   SourceA, NestedA}

\* PathBuf::from(source), as the process resolves it
source_path(source) == IF source.kind = "rel" THEN Cwd \o source.path ELSE source.path

\* fs::create_dir_all on the skills root: there, made, or in the way of a file
create_dir_all(fs, path) ==
  IF NodeAt(fs, path).kind = "dir" THEN [ok |-> TRUE, fs |-> fs]
  ELSE IF NodeAt(fs, path).kind = "absent"
    THEN [ok |-> TRUE, fs |-> [fs EXCEPT ![path] = FsDir]]
  ELSE [ok |-> FALSE, fs |-> fs]

\* std::os::unix::fs::symlink(src, dest): refused when dest is there; the link
\* holds the text of src, and a relative text is read from the directory of
\* the link.
symlink(fs, source, dest) ==
  IF NodeAt(fs, dest).kind # "absent" \/ dest \notin DOMAIN fs
  THEN [ok |-> FALSE, fs |-> fs]
  ELSE [ok |-> TRUE,
        fs |-> [fs EXCEPT ![dest] =
                  FsLink(IF source.kind = "rel"
                         THEN SubSeq(dest, 1, Len(dest) - 1) \o source.path
                         ELSE source.path)]]

\* mod.rs:896-986  SkillCommands::Install (unix); git is what `git clone` did
install_skill(workspace_dir, source, fs, git) ==
  LET skills_path == skills_dir(workspace_dir)
      made == create_dir_all(fs, skills_path)
      src == source_path(source)
      name == src[Len(src)]
      dest == Append(skills_path, name)
      cloned == Append(skills_path, source.path[1])
      linked == symlink(made.fs, source, dest)
  IN  IF ~made.ok THEN Bail("io", fs)
      ELSE IF source.kind = "url"
        THEN IF git = "ok" /\ NodeAt(made.fs, cloned).kind = "absent"
             THEN [ok |-> TRUE, error |-> "", fs |-> [made.fs EXCEPT ![cloned] = FsDir]]
             ELSE Bail("Git clone failed", made.fs)
      ELSE IF ~path_exists(made.fs, src) THEN Bail("Source path does not exist", made.fs)
      ELSE IF ~linked.ok THEN Bail("io", made.fs)
      ELSE [ok |-> TRUE, error |-> "", fs |-> linked.fs]

\* The sources and the file systems of the model.
InstallSources ==
  {UrlSource("repo"), AbsSource(SourceA), RelSource(<<"a">>), AbsSource(NestedA),
   AbsSource(SkillB), AbsSource(<<"home", "gone">>)}
InstallFileSystem(root, a, b, source) ==
  [q \in InstallPaths |->
     IF q = SkillsRoot THEN root
     ELSE IF q = SkillA THEN a
     ELSE IF q = SkillB THEN b
     ELSE IF q = NestedA THEN (IF b = FsDir THEN FsDir ELSE FsAbsent)
     ELSE IF q = SourceA THEN source
     ELSE IF q = SkillRepo THEN FsAbsent
     ELSE FsDir]
InstallFileSystems ==
  {InstallFileSystem(FsDir, a, b, src) :
     a \in {FsAbsent, FsDir}, b \in {FsAbsent, FsDir}, src \in {FsAbsent, FsDir, FsFile}}
  \cup {InstallFileSystem(root, FsAbsent, FsAbsent, src) :
          root \in {FsAbsent, FsFile}, src \in {FsAbsent, FsDir}}
InstalledNames == {<<"a">>, <<"b">>, <<"repo">>}

InitInstall ==
  /\ \E fs \in InstallFileSystems :
       rm = [pc |-> "ready", fs |-> fs, start |-> fs, before |-> fs,
             source |-> UrlSource("repo"), installed |-> NoRemoval(fs),
             name |-> <<>>, returned |-> NoRemoval(fs)]
  /\ env = [v \in Vars |-> Absent]
  /\ env0 = env
  /\ skills = <<>>
  /\ entries = [k \in Keys |-> NoEntry]
  /\ guard = [s \in Scopes |-> IdleGuard]
  /\ run = IdleRun
  /\ EligUnused
  /\ md = Unused /\ disc = Unused /\ sync = Unused /\ LateUnused

installFrame == <<env, env0, skills, entries, guard, run, eligWorld, md, disc, sync, lateWorld>>

\* One run of `skills install <source>`.
Install ==
  /\ rm.pc = "ready"
  /\ \E source \in InstallSources, git \in {"ok", "failed"} :
       LET installed == install_skill(WorkspaceDir, source, rm.fs, git)
       IN  rm' = [rm EXCEPT !.pc = "installed", !.source = source,
                            !.installed = installed, !.fs = installed.fs]
  /\ UNCHANGED installFrame

\* One run of `skills remove <name>` after the install.
RemoveInstalled ==
  /\ rm.pc = "installed"
  /\ \E name \in InstalledNames :
       LET returned == remove_skill(WorkspaceDir, name, rm.fs)
       IN  rm' = [rm EXCEPT !.pc = "removed", !.name = name, !.before = rm.fs,
                            !.returned = returned, !.fs = returned.fs]
  /\ UNCHANGED installFrame

NextInstall == Install \/ RemoveInstalled

SpecInstall == InitInstall /\ [][NextInstall]_vars

\* ------------------------------------------- claims on install and remove
\* The entry of the skills root the install made for a local source.
InstalledEntry == Append(SkillsRoot, source_path(rm.source)[Len(source_path(rm.source))])

\* An install from a local path succeeded and the skill was then removed by
\* the name of its entry.
LocalRoundTrip ==
  /\ rm.pc = "removed"
  /\ rm.source.kind \in {"abs", "rel"}
  /\ rm.installed.ok
  /\ Append(SkillsRoot, concat(rm.name)) = InstalledEntry

\* C27: after an install from an existing local path succeeded, removing the
\* skill by the name of its entry succeeds, the entry is gone from the skills
\* root, and the source is as it was.
C27_Original ==
  LocalRoundTrip =>
    /\ rm.returned.ok
    /\ rm.fs[InstalledEntry] = FsAbsent
    /\ \A q \in InstallPaths :
         path_starts_with(q, source_path(rm.source)) => rm.fs[q] = rm.start[q]

\* The source lies out of the skills root: the install linked it, the removal
\* was refused as escaping the skills directory and the link is still there.
C27_RemovalRefused ==
  /\ LocalRoundTrip
  /\ rm.source = AbsSource(SourceA)
  /\ rm.name = <<"a">>
  /\ rm.returned.error = "Skill path escapes skills directory"
  /\ rm.fs[SkillA] = FsLink(SourceA)

\* The source was given relative to the working directory: the link points at
\* itself and the removal finds no skill.
C27_RelativeSourceNotFound ==
  /\ LocalRoundTrip
  /\ rm.source = RelSource(<<"a">>)
  /\ rm.returned.error = "Skill not found"
  /\ rm.fs[SkillA] = FsLink(SkillA)

\* The round trip does hold for a source that lies inside the skills root.
C27_RoundTripInsideRoot ==
  /\ LocalRoundTrip
  /\ rm.source = AbsSource(NestedA)
  /\ rm.returned.ok
  /\ rm.fs[SkillA] = FsAbsent /\ rm.fs[NestedA] = FsDir

\* Whatever the removal returns, the source of a local install is left as it
\* was.
C27_SourceIntact ==
  LocalRoundTrip =>
    \A q \in InstallPaths :
      path_starts_with(q, source_path(rm.source)) => rm.fs[q] = rm.start[q]

\* ------------------------------------------------- extract_description
\* The lines of the simple-format documents of the model.
EmptyLine == <<>>
BlankLine == <<Blank, Blank>>
HeadingLine == <<Hash, Blank, "Title">>
IndentedHeading == <<Blank, Hash, Blank, "Title">>
TextLine == <<"does", Blank, "things">>
PaddedText == <<Blank, "padded", Blank>>
PlaceholderLine == <<"No", Blank, "description">>
DocLines ==
  {EmptyLine, BlankLine, HeadingLine, IndentedHeading, TextLine, PaddedText,
   PlaceholderLine, DelimiterLine}
Documents == SeqsUpTo(DocLines, MaxBlock)

\* extract_description has not been called on the document.
NoDescription == [pc |-> "call", content |-> <<>>, description |-> <<>>]

InitDescribe ==
  /\ \E c \in Documents : md = [NoDescription EXCEPT !.content = c]
  /\ env = [v \in Vars |-> Absent]
  /\ env0 = env
  /\ skills = <<>>
  /\ entries = [k \in Keys |-> NoEntry]
  /\ guard = [s \in Scopes |-> IdleGuard]
  /\ run = IdleRun
  /\ EligUnused
  /\ disc = Unused /\ sync = Unused /\ rm = Unused /\ LateUnused

\* A loader of the simple format takes the description of a document.
Describe ==
  /\ md.pc = "call"
  /\ md' = [md EXCEPT !.pc = "done", !.description = extract_description(md.content)]
  /\ UNCHANGED parseFrame

NextDescribe == Describe

SpecDescribe == InitDescribe /\ [][NextDescribe]_vars

\* ------------------------------------------ claims on extract_description
Described == md.pc = "done"

\* A line with nothing but white space, and a line whose first character is
\* the heading marker.
IsBlankLine(line) == \A i \in 1..Len(line) : line[i] = " "
IsHeadingLine(line) == Len(line) > 0 /\ line[1] = "#"
DescriptionLines ==
  {i \in 1..Len(md.content) :
     ~IsBlankLine(md.content[i]) /\ ~IsHeadingLine(md.content[i])}
FirstDescriptionLine ==
  md.content[CHOOSE i \in DescriptionLines : \A j \in DescriptionLines : i <= j]

\* The line without the white space around it.
Stripped(line) ==
  LET inked == {i \in 1..Len(line) : line[i] # " "}
      first == CHOOSE i \in inked : \A j \in inked : i <= j
      last == CHOOSE i \in inked : \A j \in inked : j <= i
  IN  IF inked = {} THEN <<>> ELSE SubSeq(line, first, last)

\* C21 as stated: the description is the first line that is neither blank nor
\* a heading, and it is the placeholder if and only if there is no such line.
C21_Original ==
  Described =>
    /\ DescriptionLines # {} => md.description = Stripped(FirstDescriptionLine)
    /\ md.description = <<"No", " ", "description">> <=> DescriptionLines = {}

\* C21: the description is the first line that is neither blank nor a heading
\* (a line whose first character is the marker), without the white space
\* around it; it is the placeholder when there is no such line, and otherwise
\* only when that line reads as the placeholder does.
C21_FirstDescriptionLine ==
  Described =>
    /\ DescriptionLines # {} => md.description = Stripped(FirstDescriptionLine)
    /\ DescriptionLines = {} => md.description = <<"No", " ", "description">>
    /\ md.description = <<"No", " ", "description">> =>
         \/ DescriptionLines = {}
         \/ Stripped(FirstDescriptionLine) = <<"No", " ", "description">>

\* A document of a heading, a blank line and a padded line of text: the
\* description is the text without the padding.
C21_Witness ==
  /\ Described
  /\ md.content = <<HeadingLine, BlankLine, PaddedText>>
  /\ md.description = <<"padded">>

\* A document with only heading lines has the placeholder.
C21_WitnessPlaceholder ==
  /\ Described
  /\ md.content = <<HeadingLine, HeadingLine>>
  /\ md.description = <<"No", " ", "description">>

\* ------------------------------------------------ overlapping guard scopes
\* Two executions run apply_env_overrides_for_run_with_entries over the same
\* skill list and overlay map with nothing serializing them. Each call of
\* std::env is one step: the test of mod.rs:212 and 219, the capture of
\* mod.rs:213 and 220 and the set_var of mod.rs:214 and 221 of one scope can
\* have steps of the other scope between them.

\* mod.rs:214 and 221  std::env::set_var(key, value)
MutSetVarClobbers(e, key, value) == [v \in Vars |-> value]

set_var(e, key, value) == [e EXCEPT ![key] = value]

\* No scope has started; no scope is working on a variable.
NoOverlap == [pc |-> "scopes", overlapped |-> FALSE, key |-> [s \in Scopes |-> None]]

\* A scope is live from the construction of its guard to the guard's drop.
Live(s) == guard[s].pc \notin {"idle", "disposed"}

\* What the steps of the overlapping scopes leave alone besides env, guard, ov.
overlapFrame == <<env0, skills, entries, run, eligWorld, md, disc, sync, rm, scan, orch>>

\* mod.rs:204  the guard is constructed, maybe while another scope is live
OverlapNew(s) ==
  /\ guard[s].pc = "idle"
  /\ guard' = [guard EXCEPT ![s] = [IdleGuard EXCEPT !.pc = "loop", !.idx = 1]]
  /\ ov' = [ov EXCEPT !.overlapped = @ \/ \E t \in Scopes \ {s} : Live(t)]
  /\ UNCHANGED <<env, overlapFrame>>

\* mod.rs:206-209  the head of the loop reads no shared state
OverlapLoopHead(s) == ov.pc = "scopes" /\ LoopHead(s)

\* mod.rs:212  if std::env::var(key).is_err()
InjectTest(s) ==
  /\ guard[s].pc = "env"
  /\ \E key \in guard[s].todo :
       IF env_var_unset(env, key)
       THEN /\ guard' = [guard EXCEPT ![s].pc = "env_capture"]
            /\ ov' = [ov EXCEPT !.key[s] = key]
       ELSE /\ guard' = [guard EXCEPT ![s].todo = @ \ {key}]
            /\ ov' = ov
  /\ UNCHANGED <<env, overlapFrame>>

\* mod.rs:213  guard.capture(key)
InjectCapture(s) ==
  /\ guard[s].pc = "env_capture"
  /\ guard' = [guard EXCEPT ![s].captured = capture(@, ov.key[s], env),
                            ![s].captures[ov.key[s]] = @ + 1,
                            ![s].pc = "env_set"]
  /\ UNCHANGED <<env, ov, overlapFrame>>

\* mod.rs:214  std::env::set_var(key, value)
InjectSet(s) ==
  /\ guard[s].pc = "env_set"
  /\ env' = set_var(env, ov.key[s],
                    entries[skills[guard[s].idx].skill_key].env[ov.key[s]])
  /\ guard' = [guard EXCEPT ![s].todo = @ \ {ov.key[s]}, ![s].pc = "env"]
  /\ ov' = [ov EXCEPT !.key[s] = None]
  /\ UNCHANGED overlapFrame

\* mod.rs:218-219  the test that guards the API key
KeyTest(s) ==
  /\ guard[s].pc = "env"
  /\ guard[s].todo = {}
  /\ IF should_inject_api_key(env, skills[guard[s].idx],
                              entries[skills[guard[s].idx].skill_key])
     THEN /\ guard' = [guard EXCEPT ![s].pc = "key_capture"]
          /\ ov' = [ov EXCEPT !.key[s] = skills[guard[s].idx].primary_env]
     ELSE /\ guard' = [guard EXCEPT ![s].pc = "loop", ![s].idx = @ + 1]
          /\ ov' = ov
  /\ UNCHANGED <<env, overlapFrame>>

\* mod.rs:220  guard.capture(primary_env)
KeyCapture(s) ==
  /\ guard[s].pc = "key_capture"
  /\ guard' = [guard EXCEPT ![s].captured = capture(@, ov.key[s], env),
                            ![s].captures[ov.key[s]] = @ + 1,
                            ![s].pc = "key_set"]
  /\ UNCHANGED <<env, ov, overlapFrame>>

\* mod.rs:221  std::env::set_var(primary_env, api_key)
KeySet(s) ==
  /\ guard[s].pc = "key_set"
  /\ env' = set_var(env, ov.key[s], entries[skills[guard[s].idx].skill_key].api_key)
  /\ guard' = [guard EXCEPT ![s].pc = "loop", ![s].idx = @ + 1]
  /\ ov' = [ov EXCEPT !.key[s] = None]
  /\ UNCHANGED overlapFrame

\* The scope ends and its guard drops.
OverlapDispose(s) == ov.pc = "scopes" /\ Dispose(s)

\* The skill lists and overlay maps of the overlapping scopes.
OverlapSkillLists ==
  {<<>>}
  \cup {<<sk>> : sk \in GuardSkills}
  \cup {<<Skill("s1", "s1", "A", <<>>), Skill("s2", "s2", p, <<>>)>> : p \in {None, "A", "B"}}
OverlapEntryMaps ==
  {[k \in Keys |-> IF k = "s1" THEN e1 ELSE e2] :
     e1 \in EntriesOf("s1", {None}),
     e2 \in {NoEntry, Entry("s2", None, TRUE, {}), Entry("s2", None, FALSE, {"A"})}}

InitOverlap ==
  /\ env \in Environments
  /\ env0 = env
  /\ skills \in OverlapSkillLists
  /\ entries \in OverlapEntryMaps
  /\ guard = [s \in Scopes |-> IdleGuard]
  /\ run = IdleRun
  /\ EligUnused
  /\ md = Unused /\ disc = Unused /\ sync = Unused /\ rm = Unused
  /\ ov = NoOverlap /\ scan = Unused /\ orch = Unused

ScopeStep(s) ==
  \/ OverlapNew(s)
  \/ OverlapLoopHead(s)
  \/ InjectTest(s)
  \/ InjectCapture(s)
  \/ InjectSet(s)
  \/ KeyTest(s)
  \/ KeyCapture(s)
  \/ KeySet(s)
  \/ OverlapDispose(s)

NextOverlap == \E s \in Scopes : ScopeStep(s)

SpecOverlap == InitOverlap /\ [][NextOverlap]_vars

\* ------------------------------------------- claims on overlapping scopes
\* Both guards are disposed and a variable that was absent is still set.
LeakedAfterDisposal ==
  /\ \A s \in Scopes : guard[s].pc = "disposed"
  /\ \E v \in Vars : env0[v] = Absent /\ env[v] # Absent

\* An overlay entry met in the list supplies the variable.
Supplied(v) ==
  \E i \in 1..Len(skills) :
    /\ EntryAt(i).present
    /\ \/ v \in EnvKeys(EntryAt(i))
       \/ skills[i].primary_env = v /\ EntryAt(i).api_key # None

\* A scope is past its injection and a variable it injects is not set.
RemovedInScope ==
  \E s \in Scopes : \E v \in Vars :
    /\ guard[s].pc = "scope"
    /\ env0[v] = Absent /\ Supplied(v)
    /\ env[v] = Absent

\* C22: the scoped environment breaks with two scopes, and only when they
\* overlap: a variable absent at first that is set after both guards are
\* disposed, or a variable missing in a scope that injects it, is met only
\* where a guard was constructed while the other scope was live. TLC reaches
\* both (C22_Witness, C22_WitnessRemoved).
C22_UnsafeOnlyWhenOverlapping ==
  (LeakedAfterDisposal \/ RemovedInScope) => ov.overlapped

\* Both guards are disposed and a variable that was absent holds a value one
\* of them injected.
C22_Witness ==
  /\ ov.overlapped
  /\ LeakedAfterDisposal

\* One scope is still active and its variable was removed by the other's drop.
C22_WitnessRemoved ==
  /\ ov.overlapped
  /\ RemovedInScope

\* ------------------------------------------------------ scan.rs: scan_skills
\* The tree under the root of a scan: the directories of the model, by their
\* path below the root, and the SKILL.md entry of each. A directory is absent,
\* a plain file of that name, a directory, or a directory read_dir cannot list.
TreeTop == <<>>
TreeDirs == {TreeTop, <<"a">>, <<"b">>, <<"a", "c">>}
Tree(kinds, mds) == [kind |-> kinds, md |-> mds]

\* An entry named SKILL.md that is a directory.
MdDirectory == [kind |-> "dir", manifest |-> NoManifest, lines |-> <<>>]
GoodDoc == MdFile(<<DelimiterLine, NameLine, DescriptionLine, DelimiterLine, BodyLine>>)
OtherGoodDoc == MdFile(<<PaddedDelimiter, DescriptionLine, NameLine, ObjectLine, DelimiterLine>>)
BadDoc == MdFile(<<DelimiterLine, NameLine, DelimiterLine>>)
UnclosedDoc == MdFile(<<DelimiterLine, NameLine, DescriptionLine>>)

\* skill_md.rs:5-9  parse_skill_md
parse_skill_md(file) ==
  IF file.kind # "text" THEN ParseErr("failed to read skill markdown")
  ELSE parse_skill_md_content(file.lines)

\* The node of the tree at a path below the root; a directory named SKILL.md
\* is an empty directory.
TreeKind(tree, rel) ==
  IF rel \in DOMAIN tree.kind THEN tree.kind[rel]
  ELSE IF Len(rel) > 0 /\ rel[Len(rel)] = "SKILL.md"
          /\ SubSeq(rel, 1, Len(rel) - 1) \in DOMAIN tree.md
          /\ tree.md[SubSeq(rel, 1, Len(rel) - 1)].kind = "dir" THEN "dir"
  ELSE "absent"

\* scan.rs:24-39  the entries of one directory, in the order read_dir yields
\* their names: directories go on the stack, other entries named SKILL.md
\* are found.
RECURSIVE visit_scan_entries(_, _, _, _, _)
visit_scan_entries(tree, current, names, i, acc) ==
  IF i > Len(names) THEN acc
  ELSE LET name == names[i]
           rel == Append(current, name)
           is_md == name = "SKILL.md"
           present == IF is_md
                      THEN current \in DOMAIN tree.md /\ tree.md[current].kind # "absent"
                      ELSE TreeKind(tree, rel) # "absent"
           is_dir == TreeKind(tree, rel) \in {"dir", "unlistable"}
       IN  visit_scan_entries(tree, current, names, i + 1,
             IF ~present THEN acc
             ELSE IF is_dir THEN [acc EXCEPT !.stack = Append(@, rel)]
             ELSE IF is_md THEN [acc EXCEPT !.found = Append(@, rel)]
             ELSE acc)

\* scan.rs:18-40  the walk over the stack of directories
RECURSIVE scan_walk(_, _, _)
scan_walk(tree, names, acc) ==
  IF acc.stack = <<>> THEN acc.found
  ELSE LET current == acc.stack[Len(acc.stack)]
           popped == [acc EXCEPT !.stack = SubSeq(@, 1, Len(@) - 1)]
       IN  IF TreeKind(tree, current) # "dir" THEN scan_walk(tree, names, popped)
           ELSE scan_walk(tree, names,
                          visit_scan_entries(tree, current, names, 1, popped))

\* Ord for Path: component by component, a component by its bytes.
NameRank == ("SKILL.md" :> 1) @@ ("a" :> 2) @@ ("b" :> 3) @@ ("c" :> 4)
RECURSIVE path_less(_, _, _)
path_less(p, q, i) ==
  IF i > Len(p) THEN i <= Len(q)
  ELSE IF i > Len(q) THEN FALSE
  ELSE IF p[i] = q[i] THEN path_less(p, q, i + 1)
  ELSE NameRank[p[i]] < NameRank[q[i]]

\* scan.rs:42  found.sort()
RECURSIVE insert_path(_, _)
insert_path(sorted, path) ==
  IF sorted = <<>> THEN <<path>>
  ELSE IF path_less(path, Head(sorted), 1) THEN <<path>> \o sorted
  ELSE <<Head(sorted)>> \o insert_path(Tail(sorted), path)

RECURSIVE sort_paths(_)
sort_paths(paths) ==
  IF paths = <<>> THEN <<>>
  ELSE insert_path(sort_paths(SubSeq(paths, 1, Len(paths) - 1)), paths[Len(paths)])

\* struct ParsedSkill
ParsedSkill(frontmatter, skill_dir, skill_md_path, eligible, reason) ==
  [frontmatter |-> frontmatter, skill_dir |-> skill_dir,
   skill_md_path |-> skill_md_path, eligible |-> eligible, reason |-> reason]

ScanOk(list) == [ok |-> TRUE, error |-> "", skills |-> list]
ScanErr(msg) == [ok |-> FALSE, error |-> msg, skills |-> <<>>]

\* scan.rs:44-59  the found files are parsed in order; the first error returns
RECURSIVE parse_found(_, _, _, _, _)
MutScanSkipsFailures(tree, root, found, i, parsed) ==
  IF i > Len(found) THEN ScanOk(parsed)
  ELSE LET rel == found[i]
           skill_dir == SubSeq(rel, 1, Len(rel) - 1)
           frontmatter == parse_skill_md(tree.md[skill_dir])
       IN  parse_found(tree, root, found, i + 1,
             IF ~frontmatter.ok THEN parsed
             ELSE Append(parsed, ParsedSkill(frontmatter, root \o skill_dir,
                                             root \o rel, TRUE, "")))

parse_found(tree, root, found, i, parsed) ==
  IF i > Len(found) THEN ScanOk(parsed)
  ELSE LET rel == found[i]
           skill_dir == SubSeq(rel, 1, Len(rel) - 1)
           frontmatter == parse_skill_md(tree.md[skill_dir])
       IN  IF ~frontmatter.ok THEN ScanErr(frontmatter.error)
           ELSE parse_found(tree, root, found, i + 1,
                  Append(parsed, ParsedSkill(frontmatter, root \o skill_dir,
                                             root \o rel, TRUE, "")))

\* scan.rs:8-62  scan_skills; root is the Option the caller gives, tree what
\* is on disk at the path it stands for
scan_skills(root, tree, names) ==
  LET root_path == IF root.some THEN root.val ELSE <<".", "skills">>
      start == [stack |-> <<TreeTop>>, found |-> <<>>]
  IN  IF TreeKind(tree, TreeTop) = "absent" THEN ScanOk(<<>>)
      ELSE parse_found(tree, root_path, sort_paths(scan_walk(tree, names, start)),
                       1, <<>>)

\* The orders in which read_dir yields the names of a directory.
ReadDirNameOrders ==
  {<<"SKILL.md", "a", "b", "c">>, <<"c", "b", "a", "SKILL.md">>,
   <<"b", "SKILL.md", "c", "a">>}

\* The SKILL.md entries and the trees of the model: nothing below what is no
\* directory, every SKILL.md entry in a tree of directories, and every kind
\* of directory with a few SKILL.md entries.
ScanDocs == {NoFile, GoodDoc, OtherGoodDoc, BadDoc, UnclosedDoc, UnreadableFile, MdDirectory}
FewScanDocs == {NoFile, GoodDoc, BadDoc}
DirKinds == {"absent", "file", "dir", "unlistable"}
TreeShaped(kinds, mds) ==
  /\ \A d \in TreeDirs : kinds[d] \notin {"dir", "unlistable"} => mds[d] = NoFile
  /\ \A d \in TreeDirs \ {TreeTop} :
       kinds[SubSeq(d, 1, Len(d) - 1)] \notin {"dir", "unlistable"} => kinds[d] = "absent"
ScanTrees ==
  {Tree([d \in TreeDirs |-> "dir"], mds) : mds \in [TreeDirs -> ScanDocs]}
  \cup
  {Tree(x[1], x[2]) :
     x \in {y \in [TreeDirs -> DirKinds] \X [TreeDirs -> FewScanDocs] :
              TreeShaped(y[1], y[2])}}
ScanRoots == {NoValue, Some(<<"custom">>)}

NoScan(root, tree) == [pc |-> "call", root |-> root, tree |-> tree, result |-> ScanOk(<<>>)]

InitScan ==
  /\ \E root \in ScanRoots, tree \in ScanTrees : scan = NoScan(root, tree)
  /\ env = [v \in Vars |-> Absent]
  /\ env0 = env
  /\ skills = <<>>
  /\ entries = [k \in Keys |-> NoEntry]
  /\ guard = [s \in Scopes |-> IdleGuard]
  /\ run = IdleRun
  /\ EligUnused
  /\ md = Unused /\ disc = Unused /\ sync = Unused /\ rm = Unused
  /\ ov = Unused /\ orch = Unused

\* A call of scan_skills.
Scan ==
  /\ scan.pc = "call"
  /\ \E names \in ReadDirNameOrders :
       scan' = [scan EXCEPT !.pc = "done",
                            !.result = scan_skills(scan.root, scan.tree, names)]
  /\ UNCHANGED <<env, env0, skills, entries, guard, run, eligWorld, md, disc, sync, rm, ov, orch>>

NextScan == Scan

SpecScan == InitScan /\ [][NextScan]_vars

\* ------------------------------------------------- claims on scan_skills
Scanned == scan.pc = "done"

\* The directories of the tree the walk can list, and those with an entry
\* named SKILL.md that is no directory.
Walked(d) == \A k \in 0..Len(d) : scan.tree.kind[SubSeq(d, 1, k)] = "dir"
SkillMdFound ==
  {d \in TreeDirs : Walked(d) /\ scan.tree.md[d].kind \notin {"absent", "dir"}}
FailsStrictParsing(d) == ~parse_skill_md(scan.tree.md[d]).ok

\* p comes before q: at the first component where they differ p has the name
\* whose bytes are smaller, or p ends there.
ByteOrder == <<"SKILL.md", "a", "b", "c">>
Position(name) == CHOOSE i \in 1..Len(ByteOrder) : ByteOrder[i] = name
PathBefore(p, q) ==
  \E k \in 1..Len(q) :
    /\ k <= Len(p) + 1
    /\ SubSeq(p, 1, k - 1) = SubSeq(q, 1, k - 1)
    /\ \/ k = Len(p) + 1
       \/ k <= Len(p) /\ p[k] # q[k] /\ Position(p[k]) < Position(q[k])

ScanRootPath == IF scan.root.some THEN scan.root.val ELSE <<".", "skills">>

\* C24: scan_skills returns an error and no list when a SKILL.md found under
\* the root, at any depth, fails strict parsing (or cannot be read); otherwise
\* it returns one entry per SKILL.md found, in ascending path order, each
\* eligible with an empty reason; a missing root gives the empty list.
C24_StrictScan ==
  Scanned =>
    IF scan.tree.kind[TreeTop] = "absent" THEN scan.result = ScanOk(<<>>)
    ELSE IF \E d \in SkillMdFound : FailsStrictParsing(d)
      THEN ~scan.result.ok /\ scan.result.skills = <<>>
    ELSE LET list == scan.result.skills
         IN  /\ scan.result.ok
             /\ Len(list) = Cardinality(SkillMdFound)
             /\ \A d \in SkillMdFound : \E i \in 1..Len(list) :
                  /\ list[i].skill_md_path = ScanRootPath \o d \o <<"SKILL.md">>
                  /\ list[i].skill_dir = ScanRootPath \o d
                  /\ list[i].frontmatter = parse_skill_md(scan.tree.md[d])
             /\ \A i \in 1..Len(list) : list[i].eligible /\ list[i].reason = ""
             /\ \A i, j \in 1..Len(list) :
                  i < j => PathBefore(list[i].skill_md_path, list[j].skill_md_path)

\* A SKILL.md two directories down fails strict parsing while the one at the
\* root parses: the scan returned an error and no list.
C24_Witness ==
  /\ Scanned
  /\ scan.tree.md[TreeTop] = GoodDoc
  /\ scan.tree.md[<<"a", "c">>] = BadDoc
  /\ <<"a", "c">> \in SkillMdFound
  /\ ~scan.result.ok /\ scan.result.skills = <<>>

\* Four SKILL.md files that parse, read in an order that is not the sorted one.
C24_WitnessSorted ==
  /\ Scanned
  /\ scan.result.ok
  /\ Len(scan.result.skills) = Cardinality(TreeDirs)
  /\ scan.result.skills[2].skill_dir = ScanRootPath \o <<"a">>

\* ------------------------------------ the resolver and the guard together
\* The skills the guard is run over here have required variables; their
\* entries may carry an enabled flag.
AgreeSkills ==
  {Skill(k, k, p, r) : k \in Keys, p \in {None} \cup Vars, r \in SeqsUpTo(Vars, MaxReq)}
AgreeSkillLists ==
  {<<sk>> : sk \in AgreeSkills}
  \cup {<<Skill("s1", "s1", p, <<"A">>), Skill("s2", "s2", q, <<"A", "B">>)>> :
          p, q \in {None} \cup Vars}
AgreeEntryMaps ==
  EntryMaps({None})
  \cup {[k \in Keys |-> Entry(k, flag, TRUE, {"B"})] : flag \in {"true", "false"}}

InitAgree ==
  /\ env \in Environments
  /\ env0 = env
  /\ skills \in AgreeSkillLists
  /\ entries \in AgreeEntryMaps
  /\ guard = [s \in Scopes |-> IdleGuard]
  /\ run = IdleRun
  /\ EligUnused
  /\ LoaderUnused

\* apply_env_overrides_for_run_with_entries over the list, then the scope ends.
NextAgree ==
  \/ NewGuard("run1")
  \/ LoopHead("run1")
  \/ EnvStep("run1")
  \/ PrimaryStep("run1")
  \/ Dispose("run1")

SpecAgree == InitAgree /\ [][NextAgree]_vars

\* C25: for every skill of the list that is_skill_enabled accepts under the
\* overlay map in the starting environment, every variable of its
\* requires_env is set while the guard built over the list is in its scope.
C25_EnabledRequirementsSetInScope ==
  \A i \in 1..Len(skills) :
    (guard["run1"].pc = "scope" /\ is_skill_enabled(skills[i], entries, env0)) =>
      \A j \in 1..Len(skills[i].requires_env) :
        env[skills[i].requires_env[j]] # Absent

\* An accepted skill requires a variable that was unset and that only its
\* entry's API key supplies, and one that only the env map supplies; the guard
\* is in its scope.
C25_Witness ==
  /\ guard["run1"].pc = "scope"
  /\ env0 = [v \in Vars |-> Absent]
  /\ \E i \in 1..Len(skills) :
       /\ is_skill_enabled(skills[i], entries, env0)
       /\ skills[i].requires_env = <<"A", "B">>
       /\ skills[i].primary_env = "A"
       /\ EnvKeys(EntryAt(i)) = {"B"}
       /\ env["A"] = EntryAt(i).api_key
       /\ env["B"] = EntryAt(i).env["B"]

\* ------------------------------------------------------ the orchestrator
\* Text is a sequence of characters; a message is the sequence of the words
\* split_whitespace yields from it.
AsciiLetters ==
  {"a", "b", "c", "d", "e", "f", "g", "h", "i", "j", "k", "l", "m", "n", "o",
   "p", "q", "r", "s", "t", "u", "v", "w", "x", "y", "z", "A", "B", "C", "D",
   "E", "F", "G", "H", "I", "J", "K", "L", "M", "N", "O", "P", "Q", "R", "S",
   "T", "U", "V", "W", "X", "Y", "Z"}
AsciiDigits == <<"0", "1", "2", "3", "4", "5", "6", "7", "8", "9">>
is_ascii_digit(c) == \E i \in 1..Len(AsciiDigits) : AsciiDigits[i] = c
is_ascii_alphanumeric(c) == c \in AsciiLetters \/ is_ascii_digit(c)

\* mod.rs:189-194
is_safe_name(value) ==
  /\ value # <<>>
  /\ \A i \in 1..Len(value) :
       is_ascii_alphanumeric(value[i]) \/ value[i] = "-" \/ value[i] = "_"

\* mod.rs:250-255
is_safe_service_prefix(value) ==
  /\ value # <<>>
  /\ \A i \in 1..Len(value) :
       is_ascii_alphanumeric(value[i]) \/ value[i] = "-" \/ value[i] = "_" \/ value[i] = "@"

\* The mutant of ensure_allowed: the allow-list is not consulted.
MutEnsureAllowedSkipsAllowList(config, agent) == IF ~is_safe_name(agent) THEN "invalid agent name" ELSE ""

\* mod.rs:178-186; "" is Ok(())
ensure_allowed(config, agent) ==
  IF ~is_safe_name(agent) THEN "invalid agent name"
  ELSE IF ~\E i \in 1..Len(config.allowed_agents) : config.allowed_agents[i] = agent
    THEN "agent is not allowlisted"
  ELSE ""

ServiceSuffix == <<".", "s", "e", "r", "v", "i", "c", "e">>

\* mod.rs:170-176
service_name(config, agent) ==
  IF ensure_allowed(config, agent) # ""
  THEN [ok |-> FALSE, error |-> ensure_allowed(config, agent), name |-> <<>>]
  ELSE IF ~is_safe_service_prefix(config.service_prefix)
    THEN [ok |-> FALSE, error |-> "invalid orchestrator service_prefix", name |-> <<>>]
  ELSE [ok |-> TRUE, error |-> "", name |-> config.service_prefix \o agent \o ServiceSuffix]

\* The words of the commands.
CmdHelp == <<"/", "h", "e", "l", "p">>
CmdStatus == <<"/", "s", "t", "a", "t", "u", "s">>
CmdLogs == <<"/", "l", "o", "g", "s">>
CmdRestart == <<"/", "r", "e", "s", "t", "a", "r", "t">>
CmdStart == <<"/", "s", "t", "a", "r", "t">>
CmdStop == <<"/", "s", "t", "o", "p">>
CmdRun == <<"/", "r", "u", "n">>

\* str::parse::<usize> of a word of digits, with an optional '+' before them
digit_value(c) == CHOOSE i \in 0..9 : AsciiDigits[i + 1] = c
RECURSIVE digits_value(_, _)
digits_value(word, acc) ==
  IF word = <<>> THEN acc ELSE digits_value(Tail(word), 10 * acc + digit_value(Head(word)))
parse_usize(word) ==
  LET digits == IF word # <<>> /\ Head(word) = "+" THEN Tail(word) ELSE word
  IN  IF digits # <<>> /\ \A i \in 1..Len(digits) : is_ascii_digit(digits[i])
      THEN [ok |-> TRUE, value |-> digits_value(digits, 0)]
      ELSE [ok |-> FALSE, value |-> 0]

NoLines == [some |-> FALSE, value |-> 0]
SomeLines(n) == [some |-> TRUE, value |-> n]
Command(kind, agent, lines, text) == [ok |-> TRUE, error |-> "", kind |-> kind, agent |-> agent, lines |-> lines, text |-> text]
CommandErr(message) == [ok |-> FALSE, error |-> message, kind |-> "", agent |-> <<>>, lines |-> NoLines, text |-> <<>>]

\* commands.rs:15-82 on the words of the trimmed input
parse_command(words) ==
  IF words = <<>> THEN CommandErr("empty command")
  ELSE IF words[1] = CmdHelp THEN Command("Help", <<>>, NoLines, <<>>)
  ELSE IF words[1] = CmdStatus THEN Command("Status", <<>>, NoLines, <<>>)
  ELSE IF words[1] = CmdLogs
    THEN IF Len(words) < 2 THEN CommandErr("usage: /logs <agent> [N]")
         ELSE IF Len(words) < 3 THEN Command("Logs", words[2], NoLines, <<>>)
         ELSE IF ~parse_usize(words[3]).ok THEN CommandErr("invalid line count")
         ELSE Command("Logs", words[2], SomeLines(parse_usize(words[3]).value), <<>>)
  ELSE IF words[1] = CmdRestart
    THEN IF Len(words) < 2 THEN CommandErr("usage: /restart <agent>")
         ELSE Command("Restart", words[2], NoLines, <<>>)
  ELSE IF words[1] = CmdStart
    THEN IF Len(words) < 2 THEN CommandErr("usage: /start <agent>")
         ELSE Command("Start", words[2], NoLines, <<>>)
  ELSE IF words[1] = CmdStop
    THEN IF Len(words) < 2 THEN CommandErr("usage: /stop <agent>")
         ELSE Command("Stop", words[2], NoLines, <<>>)
  ELSE IF words[1] = CmdRun
    THEN IF Len(words) < 3 THEN CommandErr("usage: /run <agent> <text...>")
         ELSE Command("Run", words[2], NoLines, SubSeq(words, 3, Len(words)))
  ELSE CommandErr("unknown command")

\* systemd.rs:8-31: the program run, for which agent the orchestrator ran it,
\* and the service name it was given
Systemctl(verb, agent, service) == [program |-> "systemctl", verb |-> verb, agent |-> agent, service |-> service, lines |-> 0]
Journalctl(agent, service, lines) == [program |-> "journalctl", verb |-> "-u", agent |-> agent, service |-> service, lines |-> lines]

Min(a, b) == IF a < b THEN a ELSE b
Max(a, b) == IF a > b THEN a ELSE b

Reply(commands, jobs) == [ok |-> TRUE, error |-> "", commands |-> commands, jobs |-> jobs]
ReplyErr(message, commands, jobs) == [ok |-> FALSE, error |-> message, commands |-> commands, jobs |-> jobs]

\* mod.rs:79-96: the allow-list in order; a failing systemd call is reported
\* in the text and the loop goes on, a bad name or prefix ends it.
RECURSIVE status(_, _, _)
status(config, i, commands) ==
  IF i > Len(config.allowed_agents) THEN Reply(commands, {})
  ELSE LET agent == config.allowed_agents[i]
           service == service_name(config, agent)
       IN  IF ~service.ok THEN ReplyErr(service.error, commands, {})
           ELSE status(config, i + 1,
                  commands \cup {Systemctl("is-active", agent, service.name),
                                 Journalctl(agent, service.name, 2)})

\* mod.rs:98-104
logs(config, agent, lines, sys) ==
  LET service == service_name(config, agent)
      requested == IF lines.some THEN lines.value ELSE config.max_log_lines
      safe_lines == Max(Min(requested, config.max_log_lines), 1)
      commands == {Journalctl(agent, service.name, safe_lines)}
  IN  IF ~service.ok THEN ReplyErr(service.error, {}, {})
      ELSE IF sys = "failed" THEN ReplyErr("journalctl failed", commands, {})
      ELSE Reply(commands, {})

\* mod.rs:106-122
act(config, agent, action, sys) ==
  LET service == service_name(config, agent)
  IN  IF ~service.ok THEN ReplyErr(service.error, {}, {})
      ELSE IF sys = "failed"
        THEN ReplyErr("systemctl failed", {Systemctl(action, agent, service.name)}, {})
      ELSE Reply({Systemctl(action, agent, service.name),
                  Systemctl("is-active", agent, service.name)}, {})

\* mod.rs:124-168 with no worker running: the job file is written and the
\* wait for its result ends at the deadline.
JobFile(agent, id) == [agent |-> agent, id |-> id]
run_job(config, agent, text, job_id, sys) ==
  IF ensure_allowed(config, agent) # "" THEN ReplyErr(ensure_allowed(config, agent), {}, {})
  ELSE IF sys = "failed" THEN ReplyErr("io", {}, {})
  ELSE Reply({}, {JobFile(agent, job_id)})

\* mod.rs:59-70
handle_message(config, words, job_id, sys) ==
  LET cmd == parse_command(words)
  IN  IF ~cmd.ok THEN ReplyErr(cmd.error, {}, {})
      ELSE IF cmd.kind = "Help" THEN Reply({}, {})
      ELSE IF cmd.kind = "Status" THEN status(config, 1, {})
      ELSE IF cmd.kind = "Logs" THEN logs(config, cmd.agent, cmd.lines, sys)
      ELSE IF cmd.kind = "Restart" THEN act(config, cmd.agent, "restart", sys)
      ELSE IF cmd.kind = "Start" THEN act(config, cmd.agent, "start", sys)
      ELSE IF cmd.kind = "Stop" THEN act(config, cmd.agent, "stop", sys)
      ELSE run_job(config, cmd.agent, cmd.text, job_id, sys)

\* The configurations and the messages of the model.
Alpha == <<"a", "1">>
Beta == <<"B", "-", "_">>
Shell == <<"a", ";">>
Parent == <<".", ".">>
SafePrefix == <<"c", "-">>
TemplatePrefix == <<"c", "@">>
PathPrefix == <<".", ".", "/">>
MaxLogLines == 3
OrchestratorConfig(agents, prefix) == [allowed_agents |-> agents, service_prefix |-> prefix, max_log_lines |-> MaxLogLines]
OrchestratorConfigs ==
  {OrchestratorConfig(<<Alpha, Beta>>, SafePrefix),
   OrchestratorConfig(<<Alpha>>, TemplatePrefix),
   OrchestratorConfig(<<Alpha, Shell, Beta>>, SafePrefix),
   OrchestratorConfig(<<Parent>>, SafePrefix),
   OrchestratorConfig(<<Alpha>>, PathPrefix),
   OrchestratorConfig(<<Alpha>>, <<>>),
   OrchestratorConfig(<<>>, SafePrefix)}
Messages ==
  {<<>>, <<CmdHelp>>, <<CmdStatus>>, <<CmdLogs>>, <<CmdLogs, Alpha>>,
   <<CmdLogs, Alpha, <<"2">>>>, <<CmdLogs, Alpha, <<"+", "9">>>>,
   <<CmdLogs, Alpha, <<"0">>>>, <<CmdLogs, Alpha, <<"x">>>>, <<CmdLogs, Shell>>,
   <<CmdRestart, Alpha>>, <<CmdRestart, Beta, Alpha>>, <<CmdRestart, Shell>>,
   <<CmdRestart>>, <<CmdStart, Beta>>, <<CmdStart, Parent>>, <<CmdStop, Alpha>>,
   <<CmdRun, Alpha, <<"g", "o">>>>, <<CmdRun, Beta, <<"g", "o">>, <<"o", "n">>>>,
   <<CmdRun, Parent, <<"g", "o">>>>, <<CmdRun, Shell, <<"g", "o">>>>,
   <<CmdRun, Alpha>>, <<<<"/", "r", "m">>, Alpha>>}
MaxMessages == 2

InitOrch ==
  /\ \E config \in OrchestratorConfigs :
       orch = [pc |-> "serving", config |-> config, handled |-> 0,
               message |-> <<>>, reply |-> Reply({}, {}),
               commands |-> {}, jobs |-> {}]
  /\ env = [v \in Vars |-> Absent]
  /\ env0 = env
  /\ skills = <<>>
  /\ entries = [k \in Keys |-> NoEntry]
  /\ guard = [s \in Scopes |-> IdleGuard]
  /\ run = IdleRun
  /\ EligUnused
  /\ md = Unused /\ disc = Unused /\ sync = Unused /\ rm = Unused
  /\ ov = Unused /\ scan = Unused

orchFrame == <<env, env0, skills, entries, guard, run, eligWorld, md, disc, sync, rm, ov, scan>>

\* One message handled by handle_message; the job id is a fresh one.
HandleMessage ==
  /\ orch.pc = "serving"
  /\ orch.handled < MaxMessages
  /\ \E words \in Messages, sys \in {"ok", "failed"} :
       LET reply == handle_message(orch.config, words, orch.handled + 1, sys)
       IN  orch' = [orch EXCEPT !.handled = @ + 1, !.message = words, !.reply = reply,
                                !.commands = @ \cup reply.commands,
                                !.jobs = @ \cup reply.jobs]
  /\ UNCHANGED orchFrame

NextOrch == HandleMessage

SpecOrch == InitOrch /\ [][NextOrch]_vars

\* ------------------------------------------------ claims on the orchestrator
OnlyNameCharacters(word) ==
  /\ Len(word) > 0
  /\ Range(word) \subseteq AsciiLetters \cup Range(AsciiDigits) \cup {"-", "_"}
OnlyPrefixCharacters(word) ==
  /\ Len(word) > 0
  /\ Range(word) \subseteq AsciiLetters \cup Range(AsciiDigits) \cup {"-", "_", "@"}
AllowListed(agent) == agent \in Range(orch.config.allowed_agents)

\* C28: whatever the messages were, every systemctl or journalctl command
\* that was run and every job file that was written is for an agent whose
\* name holds only ASCII letters, digits, '-' and '_' and is in the
\* allow-list, and every service name given to systemd is the configured
\* prefix, itself of letters, digits, '-', '_' and '@' only, then the agent
\* name, then ".service".
C28_OnlySafeAllowListedAgents ==
  orch.pc = "serving" =>
    /\ \A c \in orch.commands :
         /\ OnlyNameCharacters(c.agent) /\ AllowListed(c.agent)
         /\ OnlyPrefixCharacters(orch.config.service_prefix)
         /\ c.service = orch.config.service_prefix \o c.agent \o ServiceSuffix
    /\ \A j \in orch.jobs : OnlyNameCharacters(j.agent) /\ AllowListed(j.agent)

\* A command was run and a job file written for allow-listed agents, and the
\* last message, naming an agent out of the allow-list, ran nothing.
C28_Witness ==
  /\ orch.pc = "serving"
  /\ orch.handled = 2
  /\ orch.jobs # {}
  /\ orch.message = <<CmdRestart, Beta, Alpha>>
  /\ orch.reply.error = "agent is not allowlisted"
  /\ orch.reply.commands = {}

\* /status on an allow-list that holds an unsafe name: the agents before it
\* were queried, then the command failed.
C28_WitnessStatusStops ==
  /\ orch.pc = "serving"
  /\ orch.message = <<CmdStatus>>
  /\ orch.reply.error = "invalid agent name"
  /\ orch.reply.commands # {}

\* ------------------------------------------------------ the job queue
\* run_job writes the file <id>.json of a job into the queue directory and
\* run_queue_worker, given that directory, runs the jobs it finds there.  A
\* file of the directory is named by stem and extension; its body is absent,
\* partial (created and not yet written in full), a valid job payload, other
\* text that is no job payload, or plain text.
MaxJobs == 2
Jobs == 1..MaxJobs
QueueFile(stem, ext) == [stem |-> stem, ext |-> ext]
JobFileName(job_id) == QueueFile(job_id, "json")
JunkFile == QueueFile(0, "json")
NotesFile == QueueFile(0, "txt")
QueueFiles == {JobFileName(j) : j \in Jobs} \cup {JunkFile, NotesFile}

\* The order of the statements of mod.rs:216-243 after a job was parsed.
MutRemoveBeforeWrite(pc) == IF pc = "run" THEN "remove" ELSE IF pc = "remove" THEN "write" ELSE "next"
worker_next(pc) == IF pc = "run" THEN "write" ELSE IF pc = "write" THEN "remove" ELSE "next"

\* The entries read_dir yields: those that are there, in any order.
Listed == {f \in QueueFiles : orch.queue[f] # "absent"}

InitQueue ==
  /\ \E junk \in {"absent", "invalid"}, notes \in {"absent", "text"} :
       orch = [pc |-> "down", exit |-> "",
               queue |-> [f \in QueueFiles |->
                            IF f = JunkFile THEN junk
                            ELSE IF f = NotesFile THEN notes ELSE "absent"],
               results |-> [j \in Jobs |-> "absent"],
               writer |-> [j \in Jobs |-> "idle"],
               entries |-> {}, path |-> NotesFile, job |-> 0, removed |-> {}]
  /\ env = [v \in Vars |-> Absent]
  /\ env0 = env
  /\ skills = <<>>
  /\ entries = [k \in Keys |-> NoEntry]
  /\ guard = [s \in Scopes |-> IdleGuard]
  /\ run = IdleRun
  /\ EligUnused
  /\ md = Unused /\ disc = Unused /\ sync = Unused /\ rm = Unused
  /\ ov = Unused /\ scan = Unused

\* mod.rs:139-141: tokio::fs::write creates the file, then writes the payload
RunJobCreate(j) ==
  /\ orch.writer[j] = "idle"
  /\ orch' = [orch EXCEPT !.writer[j] = "writing", !.queue[JobFileName(j)] = "partial"]
  /\ UNCHANGED orchFrame

RunJobWrite(j) ==
  /\ orch.writer[j] = "writing"
  /\ orch' = [orch EXCEPT !.writer[j] = "polling", !.queue[JobFileName(j)] = "valid"]
  /\ UNCHANGED orchFrame

\* mod.rs:147-167: the result is there, or the deadline passes
RunJobPoll(j) ==
  /\ orch.writer[j] = "polling"
  /\ \/ /\ orch.results[j] # "absent"
        /\ orch' = [orch EXCEPT !.writer[j] = "replied"]
     \/ orch' = [orch EXCEPT !.writer[j] = "queued"]
  /\ UNCHANGED orchFrame

\* mod.rs:201-202: run_queue_worker is called, at first or again after it ended
WorkerStart ==
  /\ orch.pc = "down"
  /\ orch' = [orch EXCEPT !.pc = "list", !.exit = ""]
  /\ UNCHANGED orchFrame

\* mod.rs:205
ReadDir ==
  /\ orch.pc = "list"
  /\ orch' = [orch EXCEPT !.pc = "next", !.entries = Listed]
  /\ UNCHANGED orchFrame

\* mod.rs:206-210 and 246
NextEntry ==
  /\ orch.pc = "next"
  /\ IF orch.entries = {} THEN orch' = [orch EXCEPT !.pc = "list"]
     ELSE \E entry \in orch.entries :
            IF entry.ext # "json"
            THEN orch' = [orch EXCEPT !.entries = @ \ {entry}]
            ELSE orch' = [orch EXCEPT !.pc = "read", !.path = entry, !.entries = @ \ {entry}]
  /\ UNCHANGED orchFrame

\* mod.rs:212-214: a body that is no job payload ends the worker with Err
ReadJob ==
  /\ orch.pc = "read"
  /\ IF orch.queue[orch.path] = "valid"
     THEN orch' = [orch EXCEPT !.pc = "run", !.job = orch.path.stem]
     ELSE orch' = [orch EXCEPT !.pc = "down", !.exit = "invalid job payload"]
  /\ UNCHANGED orchFrame

\* mod.rs:216-239: the agent run ends, with Ok or with Err
RunAgent ==
  /\ orch.pc = "run"
  /\ orch' = [orch EXCEPT !.pc = worker_next("run")]
  /\ UNCHANGED orchFrame

\* mod.rs:241-242
WriteResult ==
  /\ orch.pc = "write"
  /\ orch' = [orch EXCEPT !.pc = worker_next("write"), !.results[orch.job] = "complete"]
  /\ UNCHANGED orchFrame

\* mod.rs:243
RemoveFile ==
  /\ orch.pc = "remove"
  /\ orch' = [orch EXCEPT !.pc = worker_next("remove"), !.queue[orch.path] = "absent",
                          !.removed = @ \cup {orch.job}]
  /\ UNCHANGED orchFrame

\* The worker ends at any step: an I/O error returned with `?` or a crash.
\* One that ends while the result is being written may leave part of it.
WorkerStops ==
  /\ orch.pc \notin {"down"}
  /\ \/ orch' = [orch EXCEPT !.pc = "down", !.exit = "stopped"]
     \/ /\ orch.pc = "write"
        /\ orch' = [orch EXCEPT !.pc = "down", !.exit = "stopped", !.results[orch.job] = "partial"]
  /\ UNCHANGED orchFrame

WorkerStep ==
  \/ WorkerStart
  \/ ReadDir
  \/ NextEntry
  \/ ReadJob
  \/ RunAgent
  \/ WriteResult
  \/ RemoveFile

RunJobStep(j) ==
  \/ RunJobCreate(j)
  \/ RunJobWrite(j)
  \/ RunJobPoll(j)

NextQueue ==
  \/ \E j \in Jobs : RunJobStep(j)
  \/ WorkerStep
  \/ WorkerStops

SpecQueue == InitQueue /\ [][NextQueue]_vars

\* The worker neither crashes nor meets an I/O error, is called again
\* whenever it has ended, and is scheduled fairly, as is every run_job.
NextQueueFair ==
  \/ \E j \in Jobs : RunJobStep(j)
  \/ WorkerStep

SpecQueueFair ==
  /\ InitQueue
  /\ [][NextQueueFair]_vars
  /\ WF_vars(WorkerStep)
  /\ \A j \in Jobs : WF_vars(RunJobStep(j))

\* ------------------------------------------------- claims on the job queue
\* C29: in every reachable state, whatever step the worker ended or crashed
\* at, each job whose queue file the worker has removed has its result file,
\* written in full.
C29_ResultBeforeRemoval ==
  orch.pc # "unused" => \A j \in orch.removed : orch.results[j] = "complete"

\* Job 1 was processed and its file removed, and the worker then ended while
\* processing job 2, whose file is still in the queue.
C29_Witness ==
  /\ orch.pc = "down"
  /\ orch.exit = "stopped"
  /\ orch.removed = {1}
  /\ orch.results[1] = "complete"
  /\ orch.results[2] = "partial"
  /\ orch.queue[JobFileName(2)] = "valid"

\* C30: every job file run_job has written in full is in the end processed:
\* its result is written and its queue file removed.
C30_Original ==
  \A j \in Jobs :
    (orch.queue[JobFileName(j)] = "valid")
      ~> (orch.results[j] = "complete" /\ orch.queue[JobFileName(j)] = "absent")

\* The worker has ended on a file of the queue that is no job payload while a
\* job file written in full waits in the queue.
C30_WorkerEndedOnOtherFile ==
  /\ orch.pc = "down"
  /\ orch.exit = "invalid job payload"
  /\ orch.path = JunkFile
  /\ \E j \in Jobs : orch.queue[JobFileName(j)] = "valid" /\ orch.results[j] = "absent"

\* The worker has ended on a job file it read while run_job was writing it.
C30_WorkerEndedOnPartialJob ==
  /\ orch.pc = "down"
  /\ orch.exit = "invalid job payload"
  /\ orch.path = JobFileName(1)
  /\ orch.queue[JobFileName(1)] = "valid"
  /\ orch.queue[JunkFile] = "absent"

\* With no file in the queue but job files and files that are not .json, and
\* a worker that is called again after it ended, every job is processed.
C30_ProcessedWithoutOtherJsonFiles ==
  \A j \in Jobs :
    (orch.queue[JunkFile] = "absent" /\ orch.queue[JobFileName(j)] = "valid")
      ~> (orch.results[j] = "complete" /\ orch.queue[JobFileName(j)] = "absent")

====
